---- MODULE Spec2Model ----
(***************************************************************************)
(* A model of dbs-vector: the ingestion service driving chunker, embedder  *)
(* and vector store (services/ingestion.py), the process-wide model cache  *)
(* and per-model lock of the MLX embedder (embeddings/mlx_engine.py), and  *)
(* the search path with its row mappers (services/search.py,               *)
(* storage/mappers.py).  The LanceDB store itself                          *)
(* (infrastructure/storage/lancedb_engine.py) is not part of the sources   *)
(* at hand; its operations are modelled from the specification, section    *)
(* 4.4 and 4.6, and from tests/unit/test_lancedb_engine.py.                *)
(*                                                                         *)
(* Three specifications share the module: Spec (ingestion passes),         *)
(* SpecEmbed (threads constructing embedders and embedding) and            *)
(* SpecSearch (queries).  Each leaves the other parts' variables alone.    *)
(***************************************************************************)
EXTENDS Integers, Sequences, FiniteSets, TLC

(***************************************************************************)
(* Bounds of the model.                                                    *)
(***************************************************************************)
\* threads of the process that construct embedders and embed
NThreads == 2
\* constructor and embed calls a thread starts
MaxOps == 3
\* the longest source_filter, in characters
MaxStrLen == 3
\* the largest limit of a query
MaxLimit == 2
\* settings.batch_size (64 by default, config.py:33), scaled down
BatchSize == 2
\* ingest passes per behaviour
MaxPasses == 2
\* calls a caller makes on the store
MaxStoreOps == 4
\* blocks (paragraphs, fences) of a document handed to the document chunker
MaxBlocks == 3
\* elements of the JSON array handed to the SQL chunker
MaxRecords == 2
\* rows of the table the mappers write
MaxRows == 3

Threads == 1..NThreads
ModelNames == {"m1", "m2"}

\* the characters of a source: a letter, the single quote, and "|", which in a
\* predicate reads as the SQL text  OR 1=1 --
Chars == {"a", "'", "|"}

Files == <<"a", "b">>
Items == {"x", "y"}

RECURSIVE SeqsUpTo(_, _)
SeqsUpTo(S, n) ==
  IF n = 0 THEN {<<>>}
  ELSE LET shorter == SeqsUpTo(S, n - 1)
       IN shorter \cup {Append(s, e) : s \in {t \in shorter : Len(t) = n - 1}, e \in S}

\* a file holds at most two items (paragraphs or query records)
Contents == SeqsUpTo(Items, 2)

Strings == SeqsUpTo(Chars, MaxStrLen)

\* Python's None and a value that is not None
None == <<>>
Some(x) == <<x>>

Range(s) == {s[i] : i \in 1..Len(s)}

RECURSIVE Flatten(_)
Flatten(ss) == IF ss = <<>> THEN <<>> ELSE Head(ss) \o Flatten(Tail(ss))

SelectIdx(s, P(_)) ==
  LET F[i \in 0..Len(s)] ==
        IF i = 0 THEN <<>> ELSE IF P(s[i]) THEN Append(F[i - 1], s[i]) ELSE F[i - 1]
  IN F[Len(s)]

VARIABLES
  \* ---- ingestion ----
  engine,          \* "md" (DocumentChunker, DocumentMapper) or "sql"
  fs,              \* the input files: file -> content, a sequence of items
  table,           \* the engine's table: the sequence of rows appended so far
  pc,              \* position of ingest_directory
  rebuild,         \* the rebuild argument of the running pass
  existing_hashes, \* the local of ingest_directory
  pos,             \* chunks of the stream consumed so far
  total_chunks,    \* the local of ingest_directory
  skipped_chunks,  \* the local of ingest_directory
  calls,           \* the store and embedder calls of the running pass, in order
  embedded,        \* the chunks handed to embed_batch in the running pass
  appended,        \* the chunks handed to ingest_chunks that were appended
  passFs,          \* the input files as they were when the pass started
  passTable,       \* the table as it was when the pass started
  prev,            \* summary of the pass before the running one
  passes,          \* passes started
  edited,          \* whether the input files were edited (at most once a behaviour)
  index_report,    \* what the running pass's create_indices call did
  \* ---- embedder ----
  MODEL_CACHE,     \* _MODEL_CACHE: model name -> 0 (no entry) or the tuple loaded
  loads,           \* model name -> calls of load(model_name) so far
  embedders,       \* the MLXEmbedder objects constructed: [name, tuple]
  locked,          \* the threading.Lock objects held: <<name, tuple>>
  tpc,             \* thread -> its position
  tname,           \* thread -> the model_name of the constructor it runs
  tloaded,         \* thread -> the tuple its load call returned
  tself,           \* thread -> the embedder whose method it runs
  tops,            \* thread -> constructor and embed calls started
  \* ---- search ----
  sengine,         \* the engine queried: "md" or "sql"
  squery,          \* execute_query's query
  source_filter,   \* execute_query's source_filter: None or Some(string)
  limit,           \* execute_query's limit
  extra_filters,   \* execute_query's extra_filters: its min_time, None or Some(t)
  spc,             \* "ready", then "returned" or "raised"
  store_queries,   \* the queries store.search ran on the table, in order
  results,         \* the list execute_query returned
  embed_call,      \* what execute_query's embed_query call did
  \* ---- store ----
  rows_by_hash,    \* the table: content_hash -> number of rows with it
  indices,         \* the table's indices: full-text, and the vector index's partitions
  scans,           \* projections of the content_hash column read so far
  last,            \* the store call made last, with what it returned
  seen,            \* the hashes of the chunks appended since the table was last cleared
  store_ops,       \* store calls made
  \* ---- chunkers on one document ----
  cdoc,            \* the Document handed to process
  max_chars,       \* DocumentChunker's max_chars
  cpc,             \* "ready", then "done" or "raised"
  cchunks,         \* the chunks process yielded
  clog,            \* the lines process printed
  \* ---- mappers on one table ----
  mapper_type,     \* the mapper of the table: "document" or "sql"
  mtable,          \* the rows appended to the table
  mwritten,        \* the chunk each row of the table was made from
  mlast,           \* what the last ingest_chunks call was given and did
  mresult,         \* the last row decoded: which, with which score, and the result
  \* ---- HTTP API ----
  services,        \* _services: the engines with a SearchService
  request,         \* the request handled last: its path and JSON body
  response,        \* the response to it: status code and body
  executed,        \* the execute_query calls made for it
  \* ---- command line ----
  launch,          \* how the command was started: environment, options, stdin
  environ,         \* os.environ["DBS_CONFIG_FILE"]: None or Some(path)
  settings,        \* the settings singleton: its engines and db_path
  config_path,     \* the path the root callback loaded the settings from
  cli_pc,          \* "start", "imported", "configured", "exited"
  trace,           \* what the ingest command did, in order
  exit_code,       \* the exit code of the command
  \* ---- the files of a pass ----
  tree,            \* the file system: the entries that exist
  target_path,     \* ingest_directory's target_path: a path or a glob pattern
  chunker_type,    \* the chunker of the service: "document" or "sql"
  files_read,      \* the files _chunk_generator opened
  walk_pc          \* "ready", then "done" or "raised"

ingestVars == <<engine, fs, table, pc, rebuild, existing_hashes, pos, total_chunks,
                skipped_chunks, calls, embedded, appended, passFs, passTable, prev,
                passes, edited, index_report>>

embedVars == <<MODEL_CACHE, loads, embedders, locked, tpc, tname, tloaded, tself, tops>>

searchVars == <<sengine, squery, source_filter, limit, extra_filters, spc, store_queries,
                results, embed_call>>

storeVars == <<rows_by_hash, indices, scans, last, seen, store_ops>>

chunkVars == <<cdoc, max_chars, cpc, cchunks, clog>>

mapperVars == <<mapper_type, mtable, mwritten, mlast, mresult>>

apiVars == <<services, request, response, executed>>

cliVars == <<launch, environ, settings, config_path, cli_pc, trace, exit_code>>

walkVars == <<tree, target_path, chunker_type, files_read, walk_pc>>

vars == <<ingestVars, embedVars, searchVars, storeVars, chunkVars, mapperVars, apiVars, cliVars, walkVars>>

(***************************************************************************)
(* Documents and chunkers, as far as ingestion needs them: every item of   *)
(* a file is one chunk.  sha256(...)[:16] is modelled as an injective      *)
(* function, the content it is taken over standing for its digest.         *)
(***************************************************************************)
sha256(content) == content

\* _chunk_generator builds one Document per file read
Document(files, filepath) ==
  [filepath |-> filepath, content |-> files[filepath],
   content_hash |-> sha256(files[filepath])]

\* DocumentChunker._create_chunks: the id is "{filepath}_chunk_{i}", the hash the file's
DocumentChunker_process(doc) ==
  [i \in 1..Len(doc.content) |->
     [id |-> <<doc.filepath, i - 1>>, text |-> doc.content[i],
      source |-> doc.filepath, content_hash |-> doc.content_hash]]

\* SqlChunker.process: the id is md5(raw) when the record names none, the hash
\* is taken over the normalized query; both are functions of the item
SqlChunker_process(doc) ==
  [i \in 1..Len(doc.content) |->
     [id |-> <<doc.content[i], 0>>, text |-> doc.content[i],
      source |-> "unknown", content_hash |-> sha256(<<doc.content[i]>>)]]

process(doc) ==
  IF engine = "md" THEN DocumentChunker_process(doc) ELSE SqlChunker_process(doc)

\* the chunks _chunk_generator yields, file after file
chunk_generator(files) ==
  Flatten([k \in 1..Len(Files) |-> process(Document(files, Files[k]))])

\* _batched: the next at most n items of the stream
batched(stream, from, n) ==
  SubSeq(stream, from + 1, IF from + n > Len(stream) THEN Len(stream) ELSE from + n)

(***************************************************************************)
(* The vector store (LanceDBStore), modelled from the specification: the   *)
(* table is a sequence of rows, one per appended chunk.                    *)
(***************************************************************************)
\* mapper.to_record_batch: one row per chunk, the columns ingestion reads back
to_record_batch(chunks) ==
  [i \in 1..Len(chunks) |->
     [id |-> chunks[i].id, text |-> chunks[i].text, source |-> chunks[i].source,
      content_hash |-> chunks[i].content_hash]]

\* db.drop_table(name, ignore_missing): a database whose table may be missing
drop_table(db, ignore_missing) ==
  IF db.exists THEN [ok |-> TRUE, exists |-> FALSE, rows |-> <<>>]
  ELSE [ok |-> ignore_missing, exists |-> FALSE, rows |-> <<>>]

\* db.create_table(name, schema): an empty table with the mapper's schema
create_table(db) == [ok |-> db.ok, exists |-> db.ok, rows |-> <<>>]

\* LanceDBStore.clear: drop (ignore-missing), then recreate empty
clear(db) == create_table(drop_table(db, TRUE))

\* LanceDBStore.get_existing_hashes: empty without a scan on an empty table
get_existing_hashes(t) ==
  IF Len(t) = 0 THEN {} ELSE {t[i].content_hash : i \in 1..Len(t)}

\* LanceDBStore.ingest_chunks: a no-op on no chunks, else one atomic append
ingest_chunks(t, chunks) ==
  IF Len(chunks) = 0 THEN t ELSE t \o to_record_batch(chunks)

\* the largest k in lo..hi with k * k <= n, by bisection
RECURSIVE isqrt_between(_, _, _)
isqrt_between(n, lo, hi) ==
  IF lo >= hi THEN lo
  ELSE LET mid == (lo + hi + 1) \div 2
       IN IF mid * mid <= n THEN isqrt_between(n, mid, hi) ELSE isqrt_between(n, lo, mid - 1)

\* floor(sqrt(n))
isqrt(n) == isqrt_between(n, 0, IF n < 1024 THEN n ELSE 1024)

\* the row count from which create_indices builds the vector index
VectorIndexMinRows == 256

\* the largest num_partitions create_indices asks for
MaxPartitions == 256

\* no create_indices call yet
NoReport ==
  [called |-> FALSE, fts_attempted |-> FALSE, fts_column |-> "", fts_built |-> FALSE,
   logged |-> FALSE, vector_attempted |-> FALSE, num_partitions |-> None,
   vector_built |-> FALSE, raised |-> FALSE]

\* num_partitions without the cap
create_indices_uncapped(row_count, fts_fails, vector_fails) ==
  LET build == row_count >= VectorIndexMinRows
  IN [called |-> TRUE, fts_attempted |-> TRUE, fts_column |-> "text", fts_built |-> ~fts_fails,
      logged |-> fts_fails, vector_attempted |-> build,
      num_partitions |-> IF build THEN Some(isqrt(row_count)) ELSE None,
      vector_built |-> build /\ ~vector_fails,
      raised |-> build /\ vector_fails]

\* LanceDBStore.create_indices on a table of row_count rows: the full-text
\* index over the text column first, a failure of it logged and ignored; then
\* the IVF-PQ index, skipped below VectorIndexMinRows rows, a failure of it
\* raised to the caller
create_indices(row_count, fts_fails, vector_fails) ==
  LET build == row_count >= VectorIndexMinRows
  IN [called |-> TRUE, fts_attempted |-> TRUE, fts_column |-> "text", fts_built |-> ~fts_fails,
      logged |-> fts_fails, vector_attempted |-> build,
      num_partitions |-> IF build
                         THEN Some(IF isqrt(row_count) < MaxPartitions THEN isqrt(row_count)
                                   ELSE MaxPartitions)
                         ELSE None,
      vector_built |-> build /\ ~vector_fails,
      raised |-> build /\ vector_fails]

(***************************************************************************)
(* IngestionService.ingest_directory, step by step.                        *)
(***************************************************************************)
\* the filter left out: every chunk of the batch counts as new
new_chunks_unfiltered(batch, existing) == batch

\* the filter applied to the batch as a whole: one new chunk makes all of it new
new_chunks_whole_batch(batch, existing) ==
  IF \E i \in 1..Len(batch) : batch[i].content_hash \notin existing THEN batch ELSE <<>>

\* the filter also dropping a chunk whose hash an earlier chunk of the batch has
new_chunks_dedup(batch, existing) ==
  LET F[i \in 0..Len(batch)] ==
        IF i = 0 THEN <<>>
        ELSE IF /\ batch[i].content_hash \notin existing
                /\ \A j \in 1..(i - 1) : batch[j].content_hash # batch[i].content_hash
             THEN Append(F[i - 1], batch[i])
             ELSE F[i - 1]
  IN F[Len(batch)]

\* ingestion.py:79, the chunks of a batch whose hash the snapshot lacks
new_chunks(batch, existing) ==
  SelectIdx(batch, LAMBDA c : c.content_hash \notin existing)

NoPrev ==
  [valid |-> FALSE, done |-> FALSE, fresh |-> FALSE,
   fs |-> [f \in Range(Files) |-> <<>>], table |-> <<>>]

Resting == pc \in {"idle", "done", "failed"}

\* what the pass that just ended leaves for the next one to compare with
Summary ==
  IF pc = "idle" THEN NoPrev
  ELSE [valid |-> TRUE, done |-> pc = "done",
        fresh |-> (rebuild \/ passTable = <<>>), fs |-> passFs, table |-> table]

\* the pass started with the rebuild flag ignored: no clear
StartPass_noclear(rb) ==
  /\ Resting
  /\ passes < MaxPasses
  /\ passes' = passes + 1
  /\ prev' = Summary
  /\ rebuild' = rb
  /\ pc' = "hashes"
  /\ existing_hashes' = {}
  /\ pos' = 0
  /\ total_chunks' = 0
  /\ skipped_chunks' = 0
  /\ calls' = <<>>
  /\ embedded' = <<>>
  /\ appended' = <<>>
  /\ passFs' = fs
  /\ passTable' = table
  /\ index_report' = NoReport
  /\ UNCHANGED <<engine, fs, table, edited>>

\* a call of ingest_directory(target_path, rebuild): lines 33-39
StartPass(rb) ==
  /\ Resting
  /\ passes < MaxPasses
  /\ passes' = passes + 1
  /\ prev' = Summary
  /\ rebuild' = rb
  /\ pc' = IF rb THEN "clear" ELSE "hashes"
  /\ existing_hashes' = {}
  /\ pos' = 0
  /\ total_chunks' = 0
  /\ skipped_chunks' = 0
  /\ calls' = <<>>
  /\ embedded' = <<>>
  /\ appended' = <<>>
  /\ passFs' = fs
  /\ passTable' = table
  /\ index_report' = NoReport
  /\ UNCHANGED <<engine, fs, table, edited>>

\* the exception of a store or embedder call leaves ingest_directory
Raise(call) ==
  /\ pc' = "failed"
  /\ calls' = Append(calls, call)

\* line 37: self.vector_store.clear()
Clear ==
  /\ pc = "clear"
  /\ \E ok \in BOOLEAN :
       IF ok
       THEN /\ table' = clear([ok |-> TRUE, exists |-> TRUE, rows |-> table]).rows
            /\ calls' = Append(calls, "clear")
            /\ pc' = "hashes"
       ELSE /\ Raise("clear")
            /\ UNCHANGED table
  /\ UNCHANGED <<engine, fs, rebuild, existing_hashes, pos, total_chunks, skipped_chunks,
                 embedded, appended, passFs, passTable, prev, passes, edited, index_report>>

\* line 70: existing_hashes = self.vector_store.get_existing_hashes()
GetHashes ==
  /\ pc = "hashes"
  /\ \E ok \in BOOLEAN :
       IF ok
       THEN /\ existing_hashes' = get_existing_hashes(table)
            /\ calls' = Append(calls, "get_existing_hashes")
            /\ pc' = "batches"
       ELSE /\ Raise("get_existing_hashes")
            /\ UNCHANGED existing_hashes
  /\ UNCHANGED <<engine, fs, table, rebuild, pos, total_chunks, skipped_chunks,
                 embedded, appended, passFs, passTable, prev, passes, edited, index_report>>

\* the batch loop going on to the next batch after a failed one
IngestBatch_swallows ==
  /\ pc = "batches"
  /\ pos < Len(chunk_generator(fs))
  /\ LET batch == batched(chunk_generator(fs), pos, BatchSize)
         new == new_chunks(batch, existing_hashes)
     IN IF Len(new) = 0
        THEN /\ skipped_chunks' = skipped_chunks + Len(batch)
             /\ pos' = pos + Len(batch)
             /\ UNCHANGED <<table, pc, total_chunks, calls, embedded, appended>>
        ELSE \E outcome \in {"ok", "embed_raises", "ingest_raises"} :
               /\ embedded' = embedded \o new
               /\ CASE outcome = "ok" ->
                         /\ table' = ingest_chunks(table, new)
                         /\ appended' = appended \o new
                         /\ total_chunks' = total_chunks + Len(new)
                         /\ skipped_chunks' = skipped_chunks + (Len(batch) - Len(new))
                         /\ pos' = pos + Len(batch)
                         /\ calls' = calls \o <<"embed_batch", "ingest_chunks">>
                         /\ UNCHANGED pc
                    [] outcome = "embed_raises" ->
                         /\ calls' = Append(calls, "embed_batch")
                         /\ pos' = pos + Len(batch)
                         /\ UNCHANGED <<table, pc, appended, total_chunks, skipped_chunks>>
                    [] outcome = "ingest_raises" ->
                         /\ calls' = calls \o <<"embed_batch", "ingest_chunks">>
                         /\ pos' = pos + Len(batch)
                         /\ UNCHANGED <<table, pc, appended, total_chunks, skipped_chunks>>
  /\ UNCHANGED <<engine, fs, rebuild, existing_hashes, passFs, passTable, prev, passes, edited, index_report>>

\* lines 74-91: one iteration of the batch loop
IngestBatch ==
  /\ pc = "batches"
  /\ pos < Len(chunk_generator(fs))
  /\ LET batch == batched(chunk_generator(fs), pos, BatchSize)
         new == new_chunks(batch, existing_hashes)
     IN IF Len(new) = 0
        THEN /\ skipped_chunks' = skipped_chunks + Len(batch)
             /\ pos' = pos + Len(batch)
             /\ UNCHANGED <<table, pc, total_chunks, calls, embedded, appended>>
        ELSE \E outcome \in {"ok", "embed_raises", "ingest_raises"} :
               /\ embedded' = embedded \o new
               /\ CASE outcome = "ok" ->
                         /\ table' = ingest_chunks(table, new)
                         /\ appended' = appended \o new
                         /\ total_chunks' = total_chunks + Len(new)
                         /\ skipped_chunks' = skipped_chunks + (Len(batch) - Len(new))
                         /\ pos' = pos + Len(batch)
                         /\ calls' = calls \o <<"embed_batch", "ingest_chunks">>
                         /\ UNCHANGED pc
                    [] outcome = "embed_raises" ->
                         /\ Raise("embed_batch")
                         /\ UNCHANGED <<table, appended, total_chunks, skipped_chunks, pos>>
                    [] outcome = "ingest_raises" ->
                         /\ pc' = "failed"
                         /\ calls' = calls \o <<"embed_batch", "ingest_chunks">>
                         /\ UNCHANGED <<table, appended, total_chunks, skipped_chunks, pos>>
  /\ UNCHANGED <<engine, fs, rebuild, existing_hashes, passFs, passTable, prev, passes, edited, index_report>>

\* the index build skipped when the pass appended nothing
CreateIndices_only_if_new ==
  /\ pc = "batches"
  /\ pos = Len(chunk_generator(fs))
  /\ \E fts_fails, vector_fails \in BOOLEAN :
       LET report == create_indices(Len(table), fts_fails, vector_fails)
       IN /\ index_report' = report
          /\ IF ~report.raised
             THEN /\ calls' = IF total_chunks > 0 THEN Append(calls, "create_indices") ELSE calls
                  /\ pc' = "compact"
             ELSE Raise("create_indices")
  /\ UNCHANGED <<engine, fs, table, rebuild, existing_hashes, pos, total_chunks,
                 skipped_chunks, embedded, appended, passFs, passTable, prev, passes, edited>>

\* a create_indices call that logged a full-text failure ends the pass
CreateIndices_fts_aborts ==
  /\ pc = "batches"
  /\ pos = Len(chunk_generator(fs))
  /\ \E fts_fails, vector_fails \in BOOLEAN :
       LET report == create_indices(Len(table), fts_fails, vector_fails)
       IN /\ index_report' = report
          /\ IF ~report.raised /\ ~report.logged
             THEN /\ calls' = Append(calls, "create_indices")
                  /\ pc' = "compact"
             ELSE Raise("create_indices")
  /\ UNCHANGED <<engine, fs, table, rebuild, existing_hashes, pos, total_chunks,
                 skipped_chunks, embedded, appended, passFs, passTable, prev, passes, edited>>

\* lines 96-97: self.vector_store.create_indices(), once the stream is
\* exhausted; the pass goes on to compact when the call returns and ends when
\* it raises
CreateIndices ==
  /\ pc = "batches"
  /\ pos = Len(chunk_generator(fs))
  /\ \E fts_fails, vector_fails \in BOOLEAN :
       LET report == create_indices(Len(table), fts_fails, vector_fails)
       IN /\ index_report' = report
          /\ IF ~report.raised
             THEN /\ calls' = Append(calls, "create_indices")
                  /\ pc' = "compact"
             ELSE Raise("create_indices")
  /\ UNCHANGED <<engine, fs, table, rebuild, existing_hashes, pos, total_chunks,
                 skipped_chunks, embedded, appended, passFs, passTable, prev, passes, edited>>

\* lines 99-101: self.vector_store.compact(), then the pass is complete
Compact ==
  /\ pc = "compact"
  /\ \E ok \in BOOLEAN :
       IF ok
       THEN /\ calls' = Append(calls, "compact")
            /\ pc' = "done"
       ELSE Raise("compact")
  /\ UNCHANGED <<engine, fs, table, rebuild, existing_hashes, pos, total_chunks,
                 skipped_chunks, embedded, appended, passFs, passTable, prev, passes, edited, index_report>>

\* between passes the user adds to, changes or empties an input file
EditFile ==
  /\ Resting
  /\ ~edited
  /\ \E f \in Range(Files), c \in Contents :
       /\ c # fs[f]
       /\ fs' = [fs EXCEPT ![f] = c]
  /\ edited' = TRUE
  /\ UNCHANGED <<engine, table, pc, rebuild, existing_hashes, pos, total_chunks,
                 skipped_chunks, calls, embedded, appended, passFs, passTable, prev, passes,
                 index_report>>

IngestInit ==
  /\ engine \in {"md", "sql"}
  /\ fs \in [Range(Files) -> Contents]
  /\ table = <<>>
  /\ pc = "idle"
  /\ rebuild = FALSE
  /\ existing_hashes = {}
  /\ pos = 0
  /\ total_chunks = 0
  /\ skipped_chunks = 0
  /\ calls = <<>>
  /\ embedded = <<>>
  /\ appended = <<>>
  /\ passFs = fs
  /\ passTable = <<>>
  /\ prev = NoPrev
  /\ passes = 0
  /\ edited = FALSE
  /\ index_report = NoReport

(***************************************************************************)
(* MLXEmbedder: the constructor with its module-level cache, and           *)
(* _execute_mlx under the lock of the cache entry.  A cache entry, the     *)
(* tuple (model, tokenizer, threading.Lock()), is named by the number of   *)
(* the load call that produced it.                                         *)
(***************************************************************************)
NoEmbedder == [name |-> "", tuple |-> 0]

\* a thread calls MLXEmbedder(model_name, ...): lines 18-30
Construct(t, name) ==
  /\ tpc[t] = "idle"
  /\ tops[t] < MaxOps
  /\ tops' = [tops EXCEPT ![t] = @ + 1]
  /\ tname' = [tname EXCEPT ![t] = name]
  /\ tpc' = [tpc EXCEPT ![t] = "check"]
  /\ UNCHANGED <<MODEL_CACHE, loads, embedders, locked, tloaded, tself>>

\* line 33: if model_name not in _MODEL_CACHE
CheckCache(t) ==
  /\ tpc[t] = "check"
  /\ tpc' = [tpc EXCEPT ![t] = IF MODEL_CACHE[tname[t]] = 0 THEN "load" ELSE "read"]
  /\ UNCHANGED <<MODEL_CACHE, loads, embedders, locked, tname, tloaded, tself, tops>>

\* line 35, right-hand side: load(model_name) and a new threading.Lock()
Load(t) ==
  /\ tpc[t] = "load"
  /\ loads' = [loads EXCEPT ![tname[t]] = @ + 1]
  /\ tloaded' = [tloaded EXCEPT ![t] = loads[tname[t]] + 1]
  /\ tpc' = [tpc EXCEPT ![t] = "store"]
  /\ UNCHANGED <<MODEL_CACHE, embedders, locked, tname, tself, tops>>

\* line 35, the assignment: _MODEL_CACHE[model_name] = (...)
StoreCache(t) ==
  /\ tpc[t] = "store"
  /\ MODEL_CACHE' = [MODEL_CACHE EXCEPT ![tname[t]] = tloaded[t]]
  /\ tpc' = [tpc EXCEPT ![t] = "read"]
  /\ UNCHANGED <<loads, embedders, locked, tname, tloaded, tself, tops>>

\* line 41: self.model, self.tokenizer, self._lock = _MODEL_CACHE[model_name]
ReadCache(t) ==
  /\ tpc[t] = "read"
  /\ embedders' = embedders \cup {[name |-> tname[t], tuple |-> MODEL_CACHE[tname[t]]]}
  /\ tpc' = [tpc EXCEPT ![t] = "idle"]
  /\ UNCHANGED <<MODEL_CACHE, loads, locked, tname, tloaded, tself, tops>>

\* embed_batch (lines 79-87) or embed_query (lines 93-99) reaches _execute_mlx
CallExecute(t, e) ==
  /\ tpc[t] = "idle"
  /\ tops[t] < MaxOps
  /\ e \in embedders
  /\ tops' = [tops EXCEPT ![t] = @ + 1]
  /\ tself' = [tself EXCEPT ![t] = e]
  /\ tpc' = [tpc EXCEPT ![t] = "acquire"]
  /\ UNCHANGED <<MODEL_CACHE, loads, embedders, locked, tname, tloaded>>

\* line 51: with self._lock, entered once the lock is free
Acquire(t) ==
  /\ tpc[t] = "acquire"
  /\ <<tself[t].name, tself[t].tuple>> \notin locked
  /\ locked' = locked \cup {<<tself[t].name, tself[t].tuple>>}
  /\ tpc' = [tpc EXCEPT ![t] = "inference"]
  /\ UNCHANGED <<MODEL_CACHE, loads, embedders, tname, tloaded, tself, tops>>

\* acquire() and release() around the body instead of the with block: an
\* exception of the tokenizer or of the model leaves without releasing
Release_unless_raised(t) ==
  /\ tpc[t] = "inference"
  /\ \E raised \in BOOLEAN :
       locked' = IF raised THEN locked ELSE locked \ {<<tself[t].name, tself[t].tuple>>}
  /\ tpc' = [tpc EXCEPT ![t] = "idle"]
  /\ tself' = [tself EXCEPT ![t] = NoEmbedder]
  /\ UNCHANGED <<MODEL_CACHE, loads, embedders, tname, tloaded, tops>>

\* lines 55-77: tokenizer and model run; leaving the with block, by return or
\* by exception, releases the lock and ends the call
Release(t) ==
  /\ tpc[t] = "inference"
  /\ locked' = locked \ {<<tself[t].name, tself[t].tuple>>}
  /\ tpc' = [tpc EXCEPT ![t] = "idle"]
  /\ tself' = [tself EXCEPT ![t] = NoEmbedder]
  /\ UNCHANGED <<MODEL_CACHE, loads, embedders, tname, tloaded, tops>>

\* what the constructors can leave for a model name: never loaded; loaded
\* once; or loaded twice by two constructors that both found the cache empty,
\* each embedder holding the entry the cache had when it read it
CacheStates ==
  {[loads |-> 0, cache |-> 0, tuples |-> {}], [loads |-> 1, cache |-> 1, tuples |-> {1}],
   [loads |-> 2, cache |-> 2, tuples |-> {1, 2}]}

\* the constructors have run and none is running: lines 18-41 done
ConstructedInit ==
  /\ \E f \in [ModelNames -> CacheStates] :
       /\ MODEL_CACHE = [n \in ModelNames |-> f[n].cache]
       /\ loads = [n \in ModelNames |-> f[n].loads]
       /\ embedders = UNION {{[name |-> n, tuple |-> k] : k \in f[n].tuples} : n \in ModelNames}
  /\ embedders # {}
  /\ locked = {}
  /\ tpc = [t \in Threads |-> "idle"]
  /\ tname = [t \in Threads |-> ""]
  /\ tloaded = [t \in Threads |-> 0]
  /\ tself = [t \in Threads |-> NoEmbedder]
  /\ tops = [t \in Threads |-> 0]

EmbedInit ==
  /\ MODEL_CACHE = [n \in ModelNames |-> 0]
  /\ loads = [n \in ModelNames |-> 0]
  /\ embedders = {}
  /\ locked = {}
  /\ tpc = [t \in Threads |-> "idle"]
  /\ tname = [t \in Threads |-> ""]
  /\ tloaded = [t \in Threads |-> 0]
  /\ tself = [t \in Threads |-> NoEmbedder]
  /\ tops = [t \in Threads |-> 0]

(***************************************************************************)
(* Search: SearchService.execute_query, LanceDBStore.search (modelled from *)
(* the specification, section 4.6) and the mappers' from_polars_row.       *)
(***************************************************************************)
\* settings.nprobes, handed to the store as its nprobes
nprobes == 20

\* the rows of the table a query runs on, with the cosine distance of each
\* row's vector to the query vector
StoredRows ==
  << [id |-> 1, text |-> "t1", raw_query |-> "r1", source |-> <<"a">>,
      execution_time_ms |-> 50, calls |-> 1, content_hash |-> "h1", dist |-> 3],
     [id |-> 2, text |-> "t2", raw_query |-> "r2", source |-> <<"a", "'", "|">>,
      execution_time_ms |-> 150, calls |-> 2, content_hash |-> "h2", dist |-> 1],
     [id |-> 3, text |-> "t3", raw_query |-> "r3", source |-> <<"'">>,
      execution_time_ms |-> 100, calls |-> 7, content_hash |-> "h3", dist |-> 2] >>

MinTimes == {50, 100, 150}

\* the escaping left out
escape_nothing(s) == s

\* source_filter.replace("'", "''"): every single quote doubled
escape(s) == Flatten([i \in 1..Len(s) |-> IF s[i] = "'" THEN <<"'", "'">> ELSE <<s[i]>>])

\* f"source = '{escaped}'"
source_predicate(s) == <<"source = ", "'">> \o escape(s) \o <<"'">>

\* f"execution_time_ms >= {min_time}"
min_time_predicate(t) == <<"execution_time_ms >= ", t>>

\* a later predicate replacing the earlier one
prefilters_last_wins(sf, min_time) ==
  IF min_time # None THEN <<min_time_predicate(min_time[1])>>
  ELSE IF sf # None THEN <<source_predicate(sf[1])>> ELSE <<>>

\* the predicates of a search, AND-composed, every one a prefilter
prefilters(sf, min_time) ==
  (IF sf # None THEN <<source_predicate(sf[1])>> ELSE <<>>)
    \o (IF min_time # None THEN <<min_time_predicate(min_time[1])>> ELSE <<>>)

\* table.search(query_type="hybrid").vector(qv).text(query).where(...).nprobes(n).limit(k)
hybrid_query(query, where, k) ==
  [query_type |-> "hybrid", text |-> Some(query), metric |-> None, where |-> where,
   prefilter |-> TRUE, nprobes |-> nprobes, limit |-> k]

\* the fallback with the predicates left out
fallback_query_unfiltered(q) ==
  [query_type |-> "vector", text |-> None, metric |-> Some("cosine"), where |-> <<>>,
   prefilter |-> q.prefilter, nprobes |-> q.nprobes, limit |-> q.limit]

\* table.search(qv).metric("cosine").where(...).nprobes(n).limit(k): the same
\* predicates, nprobes and limit as the hybrid query
fallback_query(q) ==
  [query_type |-> "vector", text |-> None, metric |-> Some("cosine"), where |-> q.where,
   prefilter |-> q.prefilter, nprobes |-> q.nprobes, limit |-> q.limit]

\* the table's SQL reader on a string literal: from the character after the
\* opening quote, '' is one quote and a lone quote ends the literal
RECURSIVE scan_literal(_, _, _)
scan_literal(w, i, acc) ==
  IF i > Len(w) THEN [ok |-> FALSE, value |-> acc, rest |-> <<>>]
  ELSE IF w[i] = "'"
       THEN IF i < Len(w) /\ w[i + 1] = "'"
            THEN scan_literal(w, i + 2, Append(acc, "'"))
            ELSE [ok |-> TRUE, value |-> acc, rest |-> SubSeq(w, i + 1, Len(w))]
       ELSE scan_literal(w, i + 1, Append(acc, w[i]))

\* whether the table's SQL reader accepts a predicate
predicate_valid(p) ==
  IF p[1] = "source = "
  THEN /\ Len(p) >= 3
       /\ p[2] = "'"
       /\ scan_literal(p, 3, <<>>).ok
       /\ LET rest == scan_literal(p, 3, <<>>).rest IN rest = <<>> \/ rest[1] = "|"
  ELSE TRUE

\* whether a row satisfies an accepted predicate; text after the literal that
\* starts with "|" makes the predicate true of every row
row_matches(p, row) ==
  IF p[1] = "source = "
  THEN LET lit == scan_literal(p, 3, <<>>)
       IN IF lit.rest = <<>> THEN row.source = lit.value ELSE TRUE
  ELSE row.execution_time_ms >= p[2]

\* the rows of the table that pass every predicate of a query
candidates(q) ==
  SelectIdx(StoredRows, LAMBDA row : \A i \in 1..Len(q.where) : row_matches(q.where[i], row))

\* rows in ascending order of distance
RECURSIVE by_distance(_)
by_distance(rows) ==
  IF rows = <<>> THEN <<>>
  ELSE LET m == CHOOSE i \in 1..Len(rows) : \A j \in 1..Len(rows) : rows[i].dist <= rows[j].dist
       IN <<rows[m]>> \o by_distance(SubSeq(rows, 1, m - 1) \o SubSeq(rows, m + 1, Len(rows)))

first(rows, k) == SubSeq(rows, 1, IF k < Len(rows) THEN k ELSE Len(rows))

\* the table's answer to a query: the hybrid ranker's rows, those in fts_only
\* found by text alone (a null _distance); the vector search's nearest rows
run_query(q, fts_only) ==
  IF q.query_type = "hybrid"
  THEN first([i \in 1..Len(candidates(q)) |->
                [row |-> candidates(q)[i],
                 distance |-> IF candidates(q)[i].id \in fts_only THEN None
                              ELSE Some(candidates(q)[i].dist)]], q.limit)
  ELSE first([i \in 1..Len(candidates(q)) |->
                [row |-> by_distance(candidates(q))[i],
                 distance |-> Some(by_distance(candidates(q))[i].dist)]], q.limit)

\* row.get(key): None for a column the row lacks
row_get(row, key) == IF key \in DOMAIN row THEN row[key] ELSE None

\* is_fts_match left at the default of the SearchResult model
DocumentMapper_from_polars_row_default_flag(row, score) ==
  [chunk |-> [id |-> row.id, text |-> row.text, source |-> row.source,
              content_hash |-> row.content_hash, node_type |-> row_get(row, "node_type"),
              parent_scope |-> row_get(row, "parent_scope"),
              line_range |-> row_get(row, "line_range")],
   score |-> score, distance |-> score, is_fts_match |-> FALSE]

\* DocumentMapper.from_polars_row
DocumentMapper_from_polars_row(row, score) ==
  [chunk |-> [id |-> row.id, text |-> row.text, source |-> row.source,
              content_hash |-> row.content_hash, node_type |-> row_get(row, "node_type"),
              parent_scope |-> row_get(row, "parent_scope"),
              line_range |-> row_get(row, "line_range")],
   score |-> score, distance |-> score, is_fts_match |-> (score = None)]

\* SqlMapper.from_polars_row
SqlMapper_from_polars_row(row, score) ==
  [chunk |-> [id |-> row.id, text |-> row.text, raw_query |-> row.raw_query,
              source |-> row.source, execution_time_ms |-> row.execution_time_ms,
              calls |-> row.calls, content_hash |-> row.content_hash],
   score |-> score, distance |-> score, is_fts_match |-> (score = None)]

from_polars_row(row, score) ==
  IF sengine = "md" THEN DocumentMapper_from_polars_row(row, score)
  ELSE SqlMapper_from_polars_row(row, score)

\* the rows of an answer, mapped: mapper.from_polars_row(row, row["_distance"])
mapped(answer) == [i \in 1..Len(answer) |-> from_polars_row(answer[i].row, answer[i].distance)]

\* only the empty text rejected
blank_empty_only(text) == text = ""

\* MLXEmbedder.embed_query's guard: not text.strip()
blank(text) == text \in {"", " "}

\* self._dimension, the engine's vector_dimension
Dimension == 2

\* the shape of the array _execute_mlx returns for the one text of a query,
\* None when the tokenizer or the model raises: no axis; no row; the first row
\* a scalar; one or two rows too short, right and too long; unpooled
ModelOutputs ==
  {None} \cup {Some(shape) : shape \in {<<>>, <<0, Dimension>>, <<1>>, <<1, Dimension - 1>>,
                                        <<1, Dimension>>, <<1, Dimension + 1>>,
                                        <<2, Dimension>>, <<2, Dimension + 1>>,
                                        <<1, 1, Dimension>>}}

NotCalled == [raised |-> "", lock_taken |-> FALSE, inferences |-> 0, vector |-> None]

\* the first row returned as it is, unchecked
embed_query_unchecked(text, output) ==
  IF blank(text)
  THEN [raised |-> "ValueError: Query text cannot be empty.", lock_taken |-> FALSE,
        inferences |-> 0, vector |-> None]
  ELSE IF output = None
       THEN [raised |-> "inference", lock_taken |-> TRUE, inferences |-> 1, vector |-> None]
       ELSE LET shape == output[1]
            IN IF shape = <<>> \/ shape[1] = 0
               THEN [raised |-> "IndexError", lock_taken |-> TRUE, inferences |-> 1,
                     vector |-> None]
               ELSE [raised |-> "", lock_taken |-> TRUE, inferences |-> 1,
                     vector |-> Some(Tail(shape))]

\* MLXEmbedder.embed_query: the text checked, then _execute_mlx on the one
\* prefixed text under the lock, then vectors[0] and the check of its shape;
\* vector is the shape of the array returned
embed_query(text, output) ==
  IF blank(text)
  THEN [raised |-> "ValueError: Query text cannot be empty.", lock_taken |-> FALSE,
        inferences |-> 0, vector |-> None]
  ELSE IF output = None
       THEN [raised |-> "inference", lock_taken |-> TRUE, inferences |-> 1, vector |-> None]
       ELSE LET shape == output[1]
            IN IF shape = <<>> \/ shape[1] = 0
               THEN [raised |-> "IndexError", lock_taken |-> TRUE, inferences |-> 1,
                     vector |-> None]
               ELSE IF Tail(shape) # <<Dimension>>
                    THEN [raised |-> "ValueError: Expected (D,), got shape",
                          lock_taken |-> TRUE, inferences |-> 1, vector |-> None]
                    ELSE [raised |-> "", lock_taken |-> TRUE, inferences |-> 1,
                          vector |-> Some(Tail(shape))]

\* SearchService.execute_query: embed the query, an exception of which leaves
\* the method; then store.search, which runs the hybrid query and, should that
\* fail, the vector query
ExecuteQuery ==
  /\ spc = "ready"
  /\ \E output \in ModelOutputs :
       LET embedded_query == embed_query(squery, output)
       IN /\ embed_call' = embedded_query
          /\ IF embedded_query.raised # ""
             THEN /\ spc' = "raised"
                  /\ UNCHANGED <<store_queries, results>>
             ELSE \E hybrid_fails, fallback_fails \in BOOLEAN, fts_only \in SUBSET {1, 2, 3} :
                    LET where == prefilters(source_filter, extra_filters)
                        hq == hybrid_query(squery, where, limit)
                        fq == fallback_query(hq)
                        accepted == \A i \in 1..Len(where) : predicate_valid(where[i])
                    IN IF accepted /\ ~hybrid_fails
                       THEN /\ store_queries' = <<hq>>
                            /\ results' = mapped(run_query(hq, fts_only))
                            /\ spc' = "returned"
                       ELSE IF accepted /\ ~fallback_fails
                            THEN /\ store_queries' = <<hq, fq>>
                                 /\ results' = mapped(run_query(fq, fts_only))
                                 /\ spc' = "returned"
                            ELSE /\ store_queries' = <<hq, fq>>
                                 /\ results' = <<>>
                                 /\ spc' = "raised"
  /\ UNCHANGED <<sengine, squery, source_filter, limit, extra_filters>>

\* a query waiting to be executed
SearchInit ==
  /\ sengine \in {"md", "sql"}
  /\ squery \in {"", " ", "q"}
  /\ source_filter \in {None} \cup {Some(s) : s \in Strings}
  /\ limit \in 1..MaxLimit
  /\ extra_filters \in IF sengine = "sql" THEN {None} \cup {Some(t) : t \in MinTimes} ELSE {None}
  /\ spc = "ready"
  /\ store_queries = <<>>
  /\ results = <<>>
  /\ embed_call = NotCalled

\* the search part at rest, for the specifications of the other parts
SearchIdle ==
  /\ sengine = "md"
  /\ squery = "q"
  /\ source_filter = None
  /\ limit = 1
  /\ extra_filters = None
  /\ spc = "ready"
  /\ store_queries = <<>>
  /\ results = <<>>
  /\ embed_call = NotCalled

(***************************************************************************)
(* The vector store on its own (LanceDBStore, modelled from the            *)
(* specification, section 4.4): a caller makes clear, ingest_chunks,       *)
(* get_existing_hashes, create_indices and compact calls in any order.     *)
(* The table is kept as the number of rows per content_hash, so that it    *)
(* can hold the hundreds of rows the vector index asks for.                *)
(***************************************************************************)
Hashes == {"h1", "h2"}

\* how many chunks of one content_hash a batch holds
Multiplicities == {0, 1, 255, 65536}

\* the batches handed to ingest_chunks: content_hash -> number of chunks
Batches == [Hashes -> Multiplicities]

RECURSIVE SumOver(_, _)
SumOver(f, S) ==
  IF S = {} THEN 0 ELSE LET x == CHOOSE y \in S : TRUE IN f[x] + SumOver(f, S \ {x})

\* len(table), len(chunks)
RowCount(b) == SumOver(b, Hashes)

HashesOf(b) == {h \in Hashes : b[h] > 0}

EmptyTable == [h \in Hashes |-> 0]

NoIndices == [fts |-> FALSE, vector |-> None]

\* LanceDBStore.get_existing_hashes: on an empty table the empty set and no
\* scan, else the content_hash column projected into a set
project_content_hash(rows) ==
  IF RowCount(rows) = 0 THEN [hashes |-> {}, scanned |-> FALSE]
  ELSE [hashes |-> HashesOf(rows), scanned |-> TRUE]

\* table.add(batch): the rows of the batch appended in one step
add(rows, batch) == [h \in Hashes |-> rows[h] + batch[h]]

\* table.optimize(): the files rewritten, the rows as they were
optimize(rows) == rows

Called(op, raised) ==
  [op |-> op, raised |-> raised, batch |-> EmptyTable, hashes |-> {}, scanned |-> FALSE,
   report |-> NoReport]

\* LanceDBStore.clear
StoreClear ==
  /\ store_ops < MaxStoreOps
  /\ store_ops' = store_ops + 1
  /\ rows_by_hash' = EmptyTable
  /\ indices' = NoIndices
  /\ seen' = {}
  /\ last' = Called("clear", FALSE)
  /\ UNCHANGED scans

\* LanceDBStore.ingest_chunks(chunks, vectors): nothing on no chunks, else the
\* batch appended as a whole, or, when the write fails, not at all
StoreIngestChunks(batch, write_fails) ==
  /\ store_ops < MaxStoreOps
  /\ store_ops' = store_ops + 1
  /\ IF RowCount(batch) = 0
     THEN /\ last' = [Called("ingest_chunks", FALSE) EXCEPT !.batch = batch]
          /\ UNCHANGED <<rows_by_hash, seen>>
     ELSE IF write_fails
          THEN /\ last' = [Called("ingest_chunks", TRUE) EXCEPT !.batch = batch]
               /\ UNCHANGED <<rows_by_hash, seen>>
          ELSE /\ rows_by_hash' = add(rows_by_hash, batch)
               /\ seen' = seen \cup HashesOf(batch)
               /\ last' = [Called("ingest_chunks", FALSE) EXCEPT !.batch = batch]
  /\ UNCHANGED <<indices, scans>>

\* LanceDBStore.get_existing_hashes
StoreGetExistingHashes ==
  /\ store_ops < MaxStoreOps
  /\ store_ops' = store_ops + 1
  /\ LET answer == project_content_hash(rows_by_hash)
     IN /\ scans' = IF answer.scanned THEN scans + 1 ELSE scans
        /\ last' = [Called("get_existing_hashes", FALSE) EXCEPT
                      !.hashes = answer.hashes, !.scanned = answer.scanned]
  /\ UNCHANGED <<rows_by_hash, indices, seen>>

\* LanceDBStore.create_indices
StoreCreateIndices(fts_fails, vector_fails) ==
  /\ store_ops < MaxStoreOps
  /\ store_ops' = store_ops + 1
  /\ LET report == create_indices(RowCount(rows_by_hash), fts_fails, vector_fails)
     IN /\ indices' = [fts |-> indices.fts \/ report.fts_built,
                       vector |-> IF report.vector_built THEN report.num_partitions
                                  ELSE indices.vector]
        /\ last' = [Called("create_indices", report.raised) EXCEPT !.report = report]
  /\ UNCHANGED <<rows_by_hash, scans, seen>>

\* compaction that loses the rows it rewrites
StoreCompact_dropping(fails) ==
  /\ store_ops < MaxStoreOps
  /\ store_ops' = store_ops + 1
  /\ rows_by_hash' = IF fails THEN rows_by_hash ELSE EmptyTable
  /\ last' = Called("compact", fails)
  /\ UNCHANGED <<indices, scans, seen>>

\* LanceDBStore.compact
StoreCompact(fails) ==
  /\ store_ops < MaxStoreOps
  /\ store_ops' = store_ops + 1
  /\ rows_by_hash' = IF fails THEN rows_by_hash ELSE optimize(rows_by_hash)
  /\ last' = Called("compact", fails)
  /\ UNCHANGED <<indices, scans, seen>>

\* the table as LanceDBStore's constructor creates it
StoreInit ==
  /\ rows_by_hash = EmptyTable
  /\ indices = NoIndices
  /\ scans = 0
  /\ last = Called("new", FALSE)
  /\ seen = {}
  /\ store_ops = 0

(***************************************************************************)
(* DocumentChunker on one document.  A text is a sequence of characters,   *)
(* "x" for a character that is not white space and " " for one that is     *)
(* (a blank or a newline).  The content of a markdown file is given by     *)
(* the top-level blocks markdown-it finds in it, each with the lines its   *)
(* token maps to; the content of another file by the pieces                *)
(* content.split("\n\n") cuts it into.                                     *)
(***************************************************************************)
\* n characters, none of them white space
X(n) == [i \in 1..n |-> "x"]

RECURSIVE lstrip(_)
lstrip(text) == IF text # <<>> /\ Head(text) = " " THEN lstrip(Tail(text)) ELSE text

RECURSIVE rstrip(_)
rstrip(text) ==
  IF text # <<>> /\ text[Len(text)] = " " THEN rstrip(SubSeq(text, 1, Len(text) - 1)) ELSE text

\* str.strip()
strip(text) == rstrip(lstrip(text))

\* "\n\n"
BlankLine == <<" ", " ">>

\* the chunkers keep texts of at least this many characters (document.py:88)
MinChunkChars == 5

\* the lines of the blocks of a markdown file: paragraphs and headings of 1, 5
\* and 9 characters and fences of 3 (left open), 7 and 12, each with the
\* newline that ends it
MarkdownBlocks ==
  {[type |-> "paragraph", text |-> X(n) \o <<" ">>] : n \in {1, 5, 9}}
    \cup {[type |-> "fence", text |-> X(n) \o <<" ">>] : n \in {3, 7, 12}}

\* the pieces of a text file between its blank lines
Paragraphs == {<<>>, <<" ">>, X(1), <<" ">> \o X(2) \o <<" ">>, X(5), X(9)}

\* str.lower() on the extension of a path
lower(ext) == CASE ext = ".MD" -> ".md" [] ext = ".TXT" -> ".txt" [] OTHER -> ext

\* md_parser.parse(content): a fence is one token; a paragraph an opening
\* token with the lines it maps to, its inline content one level down, and a
\* closing token without a map
parse(blocks, final_newline) ==
  Flatten([i \in 1..Len(blocks) |->
    LET lines == IF i = Len(blocks) /\ ~final_newline THEN rstrip(blocks[i].text)
                 ELSE blocks[i].text
    IN IF blocks[i].type = "fence"
       THEN << [type |-> "fence", level |-> 0, map |-> Some(i), lines |-> lines] >>
       ELSE << [type |-> "paragraph_open", level |-> 0, map |-> Some(i), lines |-> lines],
               [type |-> "inline", level |-> 1, map |-> Some(i), lines |-> lines],
               [type |-> "paragraph_close", level |-> 0, map |-> None, lines |-> <<>>] >>])

\* a text of chunks_text, with where it came from: whether it is a fence, and
\* the sizes of the blocks joined into it
Candidate(text, fence, sizes) == [text |-> text, fence |-> fence, sizes |-> sizes]

\* DocumentChunker._chunk_markdown, lines 31-61: after the tokens up to the
\* k-th, the texts collected and the running buffer
RECURSIVE markdown_loop(_, _, _)
markdown_loop(tokens, k, M) ==
  IF k = 0 THEN [chunks_text |-> <<>>, current |-> <<>>, sizes |-> <<>>]
  ELSE LET before == markdown_loop(tokens, k - 1, M)
           token == tokens[k]
           block_text == token.lines
       IN IF ~(token.level = 0 /\ token.map # None) THEN before
          ELSE IF token.type = "fence"
               THEN LET flushed ==
                          IF strip(before.current) # <<>>
                          THEN [chunks_text |->
                                  Append(before.chunks_text,
                                         Candidate(strip(before.current), FALSE, before.sizes)),
                                current |-> <<>>, sizes |-> <<>>]
                          ELSE before
                    IN [flushed EXCEPT !.chunks_text =
                          Append(@, Candidate(strip(block_text), TRUE, <<Len(block_text)>>))]
               ELSE IF /\ Len(before.current) + Len(block_text) > M
                       /\ strip(before.current) # <<>>
                    THEN [chunks_text |->
                            Append(before.chunks_text,
                                   Candidate(strip(before.current), FALSE, before.sizes)),
                          current |-> block_text, sizes |-> <<Len(block_text)>>]
                    ELSE IF before.current # <<>>
                         THEN [before EXCEPT
                                 !.current = @ \o BlankLine \o strip(block_text),
                                 !.sizes = Append(@, Len(block_text))]
                         ELSE [before EXCEPT !.current = strip(block_text),
                                             !.sizes = <<Len(block_text)>>]

\* DocumentChunker._chunk_text, lines 69-79: after the first k paragraphs
RECURSIVE text_loop(_, _, _)
text_loop(paragraphs, k, M) ==
  IF k = 0 THEN [chunks_text |-> <<>>, current |-> <<>>, sizes |-> <<>>]
  ELSE LET before == text_loop(paragraphs, k - 1, M)
           paragraph == paragraphs[k]
       IN IF Len(before.current) + Len(paragraph) > M /\ before.current # <<>>
          THEN [chunks_text |->
                  Append(before.chunks_text,
                         Candidate(strip(before.current), FALSE, before.sizes)),
                current |-> paragraph, sizes |-> <<Len(paragraph)>>]
          ELSE IF before.current # <<>>
               THEN [before EXCEPT !.current = @ \o BlankLine \o paragraph,
                                   !.sizes = Append(@, Len(paragraph))]
               ELSE [before EXCEPT !.current = paragraph, !.sizes = <<Len(paragraph)>>]

\* lines 60-61 and 81-82: the residual buffer flushed
flush(loop) ==
  IF strip(loop.current) # <<>>
  THEN Append(loop.chunks_text, Candidate(strip(loop.current), FALSE, loop.sizes))
  ELSE loop.chunks_text

\* the ordinal taken from the position among all texts, the short ones included
create_chunks_unfiltered_ordinal(document, texts) ==
  LET kept == {i \in 1..Len(texts) : Len(strip(texts[i].text)) >= MinChunkChars}
      nth(i) == CHOOSE j \in kept : Cardinality({l \in kept : l < j}) = i - 1
  IN [i \in 1..Cardinality(kept) |->
        [id |-> <<document.filepath, "_chunk_", nth(i) - 1>>, text |-> texts[nth(i)].text,
         source |-> document.filepath, content_hash |-> document.content_hash,
         origin |-> texts[nth(i)]]]

\* DocumentChunker._create_chunks: the texts of at least MinChunkChars
\* characters, numbered from 0 in the order they are yielded; the id is
\* f"{document.filepath}_chunk_{i}".  origin is not a field of Chunk: it keeps
\* where the text came from
create_chunks(document, texts) ==
  LET valid_texts == SelectIdx(texts, LAMBDA t : Len(strip(t.text)) >= MinChunkChars)
  IN [i \in 1..Len(valid_texts) |->
        [id |-> <<document.filepath, "_chunk_", i - 1>>, text |-> valid_texts[i].text,
         source |-> document.filepath, content_hash |-> document.content_hash,
         origin |-> valid_texts[i]]]

\* the fences taken for paragraphs: prose is accumulated across them
chunk_markdown_fences_as_prose(document, M) ==
  LET parsed == parse(document.content.blocks, document.content.final_newline)
      tokens == [k \in 1..Len(parsed) |->
                   IF parsed[k].type = "fence" THEN [parsed[k] EXCEPT !.type = "paragraph_open"]
                   ELSE parsed[k]]
  IN create_chunks(document, flush(markdown_loop(tokens, Len(tokens), M)))

\* DocumentChunker._chunk_markdown
chunk_markdown(document, M) ==
  LET tokens == parse(document.content.blocks, document.content.final_newline)
  IN create_chunks(document, flush(markdown_loop(tokens, Len(tokens), M)))

\* DocumentChunker._chunk_text
chunk_text(document, M) ==
  create_chunks(document, flush(text_loop(document.content, Len(document.content), M)))

\* DocumentChunker.process
DocumentProcess ==
  /\ cpc = "ready"
  /\ cdoc.filepath[2] \in {".md", ".MD", ".txt"}
  /\ cchunks' = IF lower(cdoc.filepath[2]) = ".md" THEN chunk_markdown(cdoc, max_chars)
                ELSE chunk_text(cdoc, max_chars)
  /\ cpc' = "done"
  /\ UNCHANGED <<cdoc, max_chars, clog>>

\* the contents of a markdown file: its blocks, and whether its last line ends
\* with a newline
MarkdownContents ==
  {[blocks |-> b, final_newline |-> n] : b \in SeqsUpTo(MarkdownBlocks, MaxBlocks), n \in BOOLEAN}

\* the contents of a text file: at least the one piece split returns
TextContents == SeqsUpTo(Paragraphs, MaxBlocks) \ {<<>>}

\* a markdown or text document, about to be chunked
DocChunkInit ==
  /\ \E ext \in {".md", ".MD", ".txt"} :
       \E content \in (IF lower(ext) = ".md" THEN MarkdownContents ELSE TextContents) :
         cdoc = [filepath |-> <<"docs/a", ext>>, content |-> content,
                 content_hash |-> sha256(content)]
  /\ max_chars \in {5, 8}
  /\ cpc = "ready"
  /\ cchunks = <<>>
  /\ clog = <<>>

\* the chunkers at rest, for the specifications of the other parts
ChunkIdle ==
  /\ cdoc = [filepath |-> <<"docs/a", ".txt">>, content |-> <<<<>>>>, content_hash |-> <<>>]
  /\ max_chars = 5
  /\ cpc = "ready"
  /\ cchunks = <<>>
  /\ clog = <<>>

(***************************************************************************)
(* SqlChunker on one document.  The content of a .json file is given by    *)
(* what json.loads makes of it: nothing (the text is not JSON), a value    *)
(* that is not an array, or the array of its elements.  A string is a      *)
(* sequence of characters; a number is kept in tenths, so that 1.5 is 15   *)
(* and the integer 3 is 30.                                                *)
(***************************************************************************)
\* the values of the fields of a record: a key that is missing, null, a
\* string, a number
Absent == [t |-> "absent", s |-> <<>>, n |-> 0]
Null == [t |-> "null", s |-> <<>>, n |-> 0]
Str(s) == [t |-> "str", s |-> s, n |-> 0]
Num(n) == [t |-> "num", s |-> <<>>, n |-> n]

\* the keys process reads (sql.py:33-42)
Keys ==
  {"query", "normalized_query", "normalized", "query_hash", "id", "database", "source",
   "duration", "execution_time_ms", "calls"}

\* dict.get(key): None for a key that is missing
get(record, key) == IF record.fields[key] = Absent THEN Null ELSE record.fields[key]

\* the truth value Python gives a value
truthy(v) == CASE v.t = "str" -> v.s # <<>> [] v.t = "num" -> v.n # 0 [] OTHER -> FALSE

\* a or b
Or(a, b) == IF truthy(a) THEN a ELSE b

DigitChars == <<"0", "1", "2", "3", "4", "5", "6", "7", "8", "9">>

IsDigit(c) == \E d \in 1..Len(DigitChars) : DigitChars[d] = c

DigitValue(c) == (CHOOSE d \in 1..Len(DigitChars) : DigitChars[d] = c) - 1

AllDigits(s) == s # <<>> /\ \A i \in 1..Len(s) : IsDigit(s[i])

RECURSIVE digits_value(_)
digits_value(s) ==
  IF s = <<>> THEN 0
  ELSE 10 * digits_value(SubSeq(s, 1, Len(s) - 1)) + DigitValue(s[Len(s)])

\* the decimal digits of a natural number
RECURSIVE digits_of(_)
digits_of(n) ==
  IF n < 10 THEN <<DigitChars[n + 1]>> ELSE Append(digits_of(n \div 10), DigitChars[(n % 10) + 1])

Converted(value) == [ok |-> TRUE, value |-> value]
ValueError == [ok |-> FALSE, value |-> 0]

\* a numeral without its sign: whole, or with one decimal when a fraction is
\* allowed; the value in tenths
unsigned(body, fraction_allowed) ==
  IF AllDigits(body) THEN Converted(10 * digits_value(body))
  ELSE IF /\ fraction_allowed
          /\ Len(body) >= 3
          /\ body[Len(body) - 1] = "."
          /\ AllDigits(SubSeq(body, 1, Len(body) - 2))
          /\ IsDigit(body[Len(body)])
       THEN Converted(10 * digits_value(SubSeq(body, 1, Len(body) - 2))
                        + DigitValue(body[Len(body)]))
       ELSE ValueError

\* the number a string stands for, white space around it ignored
numeral(s, fraction_allowed) ==
  LET t == strip(s)
  IN IF t # <<>> /\ Head(t) = "-"
     THEN LET u == unsigned(Tail(t), fraction_allowed)
          IN IF u.ok THEN Converted(0 - u.value) ELSE ValueError
     ELSE unsigned(t, fraction_allowed)

\* float(v) of line 41, in tenths
float(v) == IF v.t = "num" THEN Converted(v.n) ELSE numeral(v.s, TRUE)

\* int(v) of line 42: a number is cut towards zero, a string must be a whole
\* numeral
int(v) ==
  IF v.t = "num"
  THEN Converted(IF v.n >= 0 THEN v.n \div 10 ELSE 0 - ((0 - v.n) \div 10))
  ELSE LET whole == numeral(v.s, FALSE)
       IN IF whole.ok THEN Converted(whole.value \div 10) ELSE ValueError

\* str(v) of line 50
str(v) ==
  IF v.t = "str" THEN v.s
  ELSE LET magnitude == IF v.n >= 0 THEN v.n ELSE 0 - v.n
           sign == IF v.n >= 0 THEN <<>> ELSE <<"-">>
       IN IF magnitude % 10 = 0 THEN sign \o digits_of(magnitude \div 10)
          ELSE sign \o digits_of(magnitude \div 10) \o <<".">> \o digits_of(magnitude % 10)

\* hashlib.md5(raw.encode()).hexdigest()
md5(raw) == <<"md5:">> \o raw

NoSqlChunk ==
  [id |-> <<>>, text |-> <<>>, raw_query |-> <<>>, source |-> <<>>, execution_time_ms |-> 0,
   calls |-> 0, content_hash |-> <<>>]

\* the body of the loop of SqlChunker.process, lines 33-57, on one element of
\* the array: a chunk yielded, the element skipped, or an error raised
process_record(record) ==
  IF ~record.object
  THEN [outcome |-> "raise", error |-> "AttributeError", chunk |-> NoSqlChunk]
  ELSE
    LET raw == Or(get(record, "query"), Str(<<>>))
        normalized == Or(Or(get(record, "normalized_query"), get(record, "normalized")), raw)
        query_id == Or(Or(get(record, "query_hash"), get(record, "id")), Str(md5(raw.s)))
        database == Or(Or(get(record, "database"), get(record, "source")),
                       Str(<<"u", "n", "k", "n", "o", "w", "n">>))
        duration == float(Or(Or(get(record, "duration"), get(record, "execution_time_ms")),
                             Num(0)))
        call_count == int(Or(get(record, "calls"), Num(10)))
    IN IF ~duration.ok \/ ~call_count.ok
       THEN [outcome |-> "raise", error |-> "ValueError", chunk |-> NoSqlChunk]
       ELSE IF normalized.t # "str"
       THEN [outcome |-> "raise", error |-> "AttributeError", chunk |-> NoSqlChunk]
       ELSE IF strip(normalized.s) = <<>>
       THEN [outcome |-> "skip", error |-> "", chunk |-> NoSqlChunk]
       ELSE [outcome |-> "yield", error |-> "",
             chunk |-> [id |-> str(query_id), text |-> normalized.s, raw_query |-> raw.s,
                        source |-> database.s, execution_time_ms |-> duration.value,
                        calls |-> call_count.value, content_hash |-> sha256(normalized.s)]]

\* the loop of lines 31-57 over the first k elements: the chunks yielded and
\* the error that ended the generator, if one did
RECURSIVE sql_loop(_, _)
sql_loop(records, k) ==
  IF k = 0 THEN [chunks |-> <<>>, raised |-> ""]
  ELSE LET before == sql_loop(records, k - 1)
           step == process_record(records[k])
       IN IF before.raised # "" THEN before
          ELSE IF step.outcome = "raise" THEN [before EXCEPT !.raised = step.error]
          ELSE IF step.outcome = "skip" THEN before
          ELSE [before EXCEPT !.chunks = Append(@, step.chunk)]

\* SqlChunker.process as its caller sees it: the chunks it yielded, the error
\* that ended it and what it printed
sql_process(document) ==
  IF document.content.kind = "invalid"
  THEN [chunks |-> <<>>, raised |-> "", log |-> <<"Error decoding JSON">>]
  ELSE IF document.content.kind # "array"
  THEN [chunks |-> <<>>, raised |-> "", log |-> <<"Warning: Expected a JSON array">>]
  ELSE LET loop == sql_loop(document.content.records, Len(document.content.records))
       IN [chunks |-> loop.chunks, raised |-> loop.raised, log |-> <<>>]

\* SqlChunker.process, run to its end by the caller
SqlProcess ==
  /\ cpc = "ready"
  /\ cdoc.filepath[2] = ".json"
  /\ LET run == sql_process(cdoc)
     IN /\ cchunks' = run.chunks
        /\ clog' = run.log
        /\ cpc' = IF run.raised = "" THEN "done" ELSE "raised"
  /\ UNCHANGED <<cdoc, max_chars>>

\* a record with the raw query only
BaseRecord == [object |-> TRUE, fields |-> [k \in Keys |-> IF k = "query" THEN Str(<<"q">>) ELSE Absent]]

With(record, key, value) == [record EXCEPT !.fields[key] = value]

\* an element of the array that is not an object: a number, a string, null,
\* an array
NotAnObject == [object |-> FALSE, fields |-> [k \in Keys |-> Absent]]

\* the elements of the arrays tried: the record with one field set to a value
\* of each kind, and an element that is no record
SqlRecords ==
  {BaseRecord, NotAnObject}
    \cup {With(BaseRecord, "query", v) : v \in {Null, Str(<<" ">>), Absent}}
    \cup {With(BaseRecord, "normalized_query", v) :
            v \in {Null, Str(<<"n">>), Str(<<" ", " ">>), Num(50)}}
    \cup {With(BaseRecord, "normalized", Str(<<"m">>))}
    \cup {With(BaseRecord, "query_hash", Str(<<"h">>))}
    \cup {With(BaseRecord, "id", v) : v \in {Str(<<"i">>), Num(420), Num(15)}}
    \cup {With(BaseRecord, "database", Str(<<"d">>)), With(BaseRecord, "source", Str(<<"s">>))}
    \cup {With(BaseRecord, "duration", v) :
            v \in {Null, Num(0), Num(15), Num(0 - 50), Str(<<"7">>), Str(<<"1", ".", "5">>),
                   Str(<<" ", "-", "2">>), Str(<<"a">>)}}
    \cup {With(BaseRecord, "execution_time_ms", Num(25))}
    \cup {With(BaseRecord, "calls", v) :
            v \in {Null, Num(0), Num(30), Num(0 - 30), Num(5), Str(<<"7">>),
                   Str(<<"1", ".", "5">>), Str(<<"a">>)}}

\* the contents of a .json file
JsonContents ==
  {[kind |-> k, records |-> <<>>] : k \in {"invalid", "object", "scalar"}}
    \cup {[kind |-> "array", records |-> r] : r \in SeqsUpTo(SqlRecords, MaxRecords)}

\* a .json document, about to be chunked
SqlChunkInit ==
  /\ \E content \in JsonContents :
       cdoc = [filepath |-> <<"logs/q", ".json">>, content |-> content,
               content_hash |-> sha256(content)]
  /\ max_chars = 5
  /\ cpc = "ready"
  /\ cchunks = <<>>
  /\ clog = <<>>

(***************************************************************************)
(* The mappers between chunks and table rows.  A numpy array is its shape  *)
(* and its elements in row-major order; LanceDBStore.ingest_chunks is      *)
(* modelled from the specification, section 4.4: mapper.to_record_batch,   *)
(* then one atomic append.                                                 *)
(***************************************************************************)
RECURSIVE product(_)
product(shape) == IF shape = <<>> THEN 1 ELSE Head(shape) * product(Tail(shape))

\* an array of the given shape, its elements numbered in row-major order
Array(shape) == [shape |-> shape, data |-> [i \in 1..product(shape) |-> i]]

\* vectors.ravel()
ravel(vectors) == vectors.data

\* pa.FixedSizeListArray.from_arrays(values, list_size): the values cut into
\* lists of list_size; an error when they do not divide into such lists
FixedSizeListArray_from_arrays(values, list_size) ==
  IF Len(values) % list_size # 0 THEN [ok |-> FALSE, lists |-> <<>>]
  ELSE [ok |-> TRUE,
        lists |-> [i \in 1..(Len(values) \div list_size) |->
                     SubSeq(values, (i - 1) * list_size + 1, i * list_size)]]

ArrowInvalid == [raised |-> "ArrowInvalid", rows |-> <<>>]

\* the raw_query and source columns filled from each other's list
SqlMapper_to_record_batch_crossed(chunks, vectors, workflow) ==
  LET vector == FixedSizeListArray_from_arrays(ravel(vectors), Dimension)
  IN IF ~vector.ok \/ Len(vector.lists) # Len(chunks) THEN ArrowInvalid
     ELSE [raised |-> "",
           rows |-> [i \in 1..Len(chunks) |->
                       [id |-> chunks[i].id, vector |-> vector.lists[i],
                        text |-> chunks[i].text, raw_query |-> chunks[i].source,
                        source |-> chunks[i].raw_query,
                        execution_time_ms |-> chunks[i].execution_time_ms,
                        calls |-> chunks[i].calls, content_hash |-> chunks[i].content_hash,
                        workflow |-> workflow]]]

\* SqlMapper.to_record_batch: one row per chunk; RecordBatch.from_arrays
\* refuses columns of different lengths
SqlMapper_to_record_batch(chunks, vectors, workflow) ==
  LET vector == FixedSizeListArray_from_arrays(ravel(vectors), Dimension)
  IN IF ~vector.ok \/ Len(vector.lists) # Len(chunks) THEN ArrowInvalid
     ELSE [raised |-> "",
           rows |-> [i \in 1..Len(chunks) |->
                       [id |-> chunks[i].id, vector |-> vector.lists[i],
                        text |-> chunks[i].text, raw_query |-> chunks[i].raw_query,
                        source |-> chunks[i].source,
                        execution_time_ms |-> chunks[i].execution_time_ms,
                        calls |-> chunks[i].calls, content_hash |-> chunks[i].content_hash,
                        workflow |-> workflow]]]

\* the shape of the matrix checked against (len(chunks), D) first
DocumentMapper_to_record_batch_checked(chunks, vectors, workflow) ==
  LET vector == FixedSizeListArray_from_arrays(ravel(vectors), Dimension)
  IN IF vectors.shape # <<Len(chunks), Dimension>> THEN ArrowInvalid
     ELSE [raised |-> "",
           rows |-> [i \in 1..Len(chunks) |->
                       [id |-> chunks[i].id, vector |-> vector.lists[i],
                        text |-> chunks[i].text, source |-> chunks[i].source,
                        content_hash |-> chunks[i].content_hash, workflow |-> workflow,
                        node_type |-> chunks[i].node_type,
                        parent_scope |-> chunks[i].parent_scope,
                        line_range |-> chunks[i].line_range]]]

\* DocumentMapper.to_record_batch
DocumentMapper_to_record_batch(chunks, vectors, workflow) ==
  LET vector == FixedSizeListArray_from_arrays(ravel(vectors), Dimension)
  IN IF ~vector.ok \/ Len(vector.lists) # Len(chunks) THEN ArrowInvalid
     ELSE [raised |-> "",
           rows |-> [i \in 1..Len(chunks) |->
                       [id |-> chunks[i].id, vector |-> vector.lists[i],
                        text |-> chunks[i].text, source |-> chunks[i].source,
                        content_hash |-> chunks[i].content_hash, workflow |-> workflow,
                        node_type |-> chunks[i].node_type,
                        parent_scope |-> chunks[i].parent_scope,
                        line_range |-> chunks[i].line_range]]]

\* the chunks of a document engine: with and without the AST fields
DocumentChunks ==
  {[id |-> <<"a.md", "_chunk_", i>>, text |-> "hello world", source |-> "a.md",
    content_hash |-> "ha", node_type |-> ast[1], parent_scope |-> ast[2],
    line_range |-> ast[3]] :
     i \in {0}, ast \in {<<None, None, None>>, <<Some("function"), Some("C"), Some("1-2")>>,
                          <<Some("class"), None, None>>}}

\* the chunks of a SQL engine
SqlChunks ==
  {[id |-> "q1", text |-> "SELECT ?", raw_query |-> rs[1], source |-> rs[2],
    execution_time_ms |-> 15, calls |-> 7, content_hash |-> "hq"] :
     rs \in {<<"SELECT 1", "unknown">>, <<"", "db">>, <<"db", "db">>}}

MapperChunks == IF mapper_type = "document" THEN DocumentChunks ELSE SqlChunks

Workflows == {"document-v1", "sql-v1"}

\* the shapes an embed_batch result for n texts is tried with
Shapes(n) ==
  {<<n, Dimension>>, <<n, Dimension + 1>>, <<n, Dimension - 1>>, <<n + 1, Dimension>>,
   <<Dimension, n>>, <<n * Dimension>>, <<n, Dimension, 1>>, <<1, n * Dimension>>}

\* the scores a row is decoded with: none (a full-text match) and distances
RowScores == {None, Some(0), Some(3)}

NoIngest == [called |-> FALSE, chunks |-> 0, shape |-> <<>>, raised |-> "", rows |-> 0]

NoResult == [decoded |-> FALSE, k |-> 0, score |-> None, result |-> <<>>]

to_record_batch_of(type, chunks, vectors, workflow) ==
  IF type = "document" THEN DocumentMapper_to_record_batch(chunks, vectors, workflow)
  ELSE SqlMapper_to_record_batch(chunks, vectors, workflow)

\* LanceDBStore.ingest_chunks(chunks, vectors): the record batch of the
\* mapper appended as a whole, or nothing when the mapper raised
MapperIngestChunks(chunks, vectors, workflow) ==
  /\ Len(mtable) + Len(chunks) <= MaxRows
  /\ chunks # <<>>
  /\ LET batch == to_record_batch_of(mapper_type, chunks, vectors, workflow)
     IN /\ mtable' = mtable \o batch.rows
        /\ mwritten' = IF batch.raised = "" THEN mwritten \o chunks ELSE mwritten
        /\ mlast' = [called |-> TRUE, chunks |-> Len(chunks), shape |-> vectors.shape,
                     raised |-> batch.raised, rows |-> Len(batch.rows)]
  /\ UNCHANGED <<mapper_type, mresult>>

\* mapper.from_polars_row(row, score) on the k-th row of the table
MapperFromPolarsRow(k, score) ==
  /\ k \in 1..Len(mtable)
  /\ mresult' = [decoded |-> TRUE, k |-> k, score |-> score,
                 result |-> IF mapper_type = "document"
                            THEN DocumentMapper_from_polars_row(mtable[k], score)
                            ELSE SqlMapper_from_polars_row(mtable[k], score)]
  /\ UNCHANGED <<mapper_type, mtable, mwritten, mlast>>

MapperInit ==
  /\ mapper_type \in {"document", "sql"}
  /\ mtable = <<>>
  /\ mwritten = <<>>
  /\ mlast = NoIngest
  /\ mresult = NoResult

\* the mappers at rest, for the specifications of the other parts
MapperIdle ==
  /\ mapper_type = "document"
  /\ mtable = <<>>
  /\ mwritten = <<>>
  /\ mlast = NoIngest
  /\ mresult = NoResult

(***************************************************************************)
(* The HTTP API: POST /search/md and POST /search/sql.  A field of the     *)
(* JSON body is None when the body lacks it.                               *)
(***************************************************************************)
\* the bodies tried: with and without a query, limits around 1..100
Bodies ==
  [query : {None, Some(""), Some(" "), Some("q")},
   limit : {None, Some(0), Some(1), Some(100), Some(101)},
   source_filter : {None, Some("a.md")},
   min_time : {None, Some(100)}]

\* SearchRequest / SqlSearchRequest, validated before the handler runs: query
\* required, limit 5 when missing and within 1..100
SearchRequest(body) ==
  IF body.query = None THEN [ok |-> FALSE, query |-> "", limit |-> 0]
  ELSE LET limit_value == IF body.limit = None THEN 5 ELSE body.limit[1]
       IN IF limit_value < 1 \/ limit_value > 100 THEN [ok |-> FALSE, query |-> "", limit |-> 0]
          ELSE [ok |-> TRUE, query |-> body.query[1], limit |-> limit_value]

\* the outcomes of service.execute_query(query, ...): the results, or the
\* error raised; a blank query is refused by embed_query
ExecuteOutcomes(query) ==
  IF blank(query) THEN {[raised |-> TRUE, results |-> <<>>]}
  ELSE {[raised |-> TRUE, results |-> <<>>], [raised |-> FALSE, results |-> <<>>],
        [raised |-> FALSE, results |-> <<"r1", "r2">>]}

NoResponse == [status |-> 0, query |-> None, results |-> <<>>]

HTTPException(status_code) == [status |-> status_code, query |-> None, results |-> <<>>]

\* the handler of a search endpoint for one engine: search_md with
\* extra_filters = {}, search_sql with min_time when the body has it
Search(engine_name, body) ==
  /\ request' = [path |-> engine_name, body |-> body]
  /\ LET validated == SearchRequest(body)
     IN IF ~validated.ok
        THEN /\ response' = HTTPException(422)
             /\ executed' = <<>>
        ELSE IF engine_name \notin services
        THEN /\ response' = HTTPException(503)
             /\ executed' = <<>>
        ELSE \E outcome \in ExecuteOutcomes(validated.query) :
               /\ executed' =
                    << [query |-> validated.query, source_filter |-> body.source_filter,
                        limit |-> validated.limit,
                        extra_filters |-> IF engine_name = "sql" THEN body.min_time
                                          ELSE None] >>
               /\ response' = IF outcome.raised THEN HTTPException(500)
                              ELSE [status |-> 200, query |-> Some(validated.query),
                                    results |-> outcome.results]
  /\ UNCHANGED services

\* POST /search/md; the request model has no min_time
search_md == \E body \in Bodies : body.min_time = None /\ Search("md", body)

\* POST /search/sql
search_sql == \E body \in Bodies : Search("sql", body)

NoRequest ==
  [path |-> "", body |-> [query |-> None, limit |-> None, source_filter |-> None,
                          min_time |-> None]]

\* the application once lifespan has run: the engines whose service was built
ApiInit ==
  /\ services \in SUBSET {"md", "sql"}
  /\ request = NoRequest
  /\ response = NoResponse
  /\ executed = <<>>

\* the API at rest, for the specifications of the other parts
ApiIdle ==
  /\ services = {}
  /\ request = NoRequest
  /\ response = NoResponse
  /\ executed = <<>>

(***************************************************************************)
(* The command line: the settings singleton built when dbs_vector.config   *)
(* is imported, the root callback main, and the ingest command.            *)
(***************************************************************************)
ConfigFiles == {"config.yaml", "env.yaml", "explicit.yaml"}

\* the engines each configuration file defines, when it exists
FileEngines(path) ==
  CASE path = "config.yaml" -> {"md"}
    [] path = "env.yaml" -> {"md", "sql"}
    [] OTHER -> {"sql"}

\* Settings(): no engines, the default db_path
DefaultSettings == [engines |-> {}, db_path |-> "./lancedb_dbs_vector"]

\* load_settings(config_file): the path given, else DBS_CONFIG_FILE, else
\* config.yaml; the defaults when the file does not exist
load_settings(config_file, env, existing) ==
  LET path == IF config_file = None
              THEN (IF env = None THEN "config.yaml" ELSE env[1])
              ELSE config_file[1]
  IN IF path \in existing
     THEN [path |-> path, settings |-> [engines |-> FileEngines(path), db_path |-> path]]
     ELSE [path |-> path, settings |-> DefaultSettings]

\* config.py:76, run when the module is imported: settings = load_settings()
ImportConfig ==
  /\ cli_pc = "start"
  /\ settings' = load_settings(None, environ, launch.existing).settings
  /\ cli_pc' = "imported"
  /\ UNCHANGED <<launch, environ, config_path, trace, exit_code>>

\* the root callback: the --config-file option, "config.yaml" when it is not
\* given, exported to the environment and loaded into the singleton
main ==
  /\ cli_pc = "imported"
  /\ LET config_file == IF launch.config_file = None THEN "config.yaml"
                        ELSE launch.config_file[1]
         new_settings == load_settings(Some(config_file), Some(config_file), launch.existing)
     IN /\ environ' = Some(config_file)
        /\ settings' = new_settings.settings
        /\ config_path' = Some(new_settings.path)
  /\ cli_pc' = "configured"
  /\ UNCHANGED <<launch, trace, exit_code>>

\* the positional parameters of IngestionService.__init__ after self
IngestionService_parameters == 3

\* IngestionService(*args): a TypeError unless the arguments fit the parameters
IngestionService_init(args) == Len(args) = IngestionService_parameters

\* the ingest command, from its first line to its exit
ingest ==
  /\ cli_pc = "configured"
  /\ cli_pc' = "exited"
  /\ IF launch.engine_name \notin settings.engines
     THEN /\ trace' = <<"echo: Unknown engine type">>
          /\ exit_code' = 1
     ELSE LET prompted == launch.rebuild /\ ~launch.force
              confirm == IF prompted THEN <<"confirm">> ELSE <<>>
          IN IF prompted /\ launch.answer = "n"
             THEN /\ trace' = confirm \o <<"Aborted">>
                  /\ exit_code' = 1
             ELSE \E built \in {"deps", "embedder raises", "Schema mismatch"} :
                    CASE built = "embedder raises" ->
                           /\ trace' = confirm \o <<"MLXEmbedder", "raised">>
                           /\ exit_code' = 1
                      [] built = "Schema mismatch" ->
                           /\ trace' = confirm \o <<"MLXEmbedder", "LanceDBStore",
                                                   "echo: Database Error">>
                           /\ exit_code' = 1
                      [] built = "deps" ->
                           LET deps == <<"chunker", "embedder", "store", "workflow">>
                               opened == confirm \o <<"MLXEmbedder", "LanceDBStore", "deps">>
                           IN IF ~IngestionService_init(deps)
                              THEN /\ trace' = opened \o <<"IngestionService", "TypeError">>
                                   /\ exit_code' = 1
                              ELSE \E raises \in BOOLEAN :
                                     /\ trace' = opened
                                          \o <<"IngestionService",
                                               IF launch.rebuild
                                               THEN "ingest_directory(rebuild=True)"
                                               ELSE "ingest_directory(rebuild=False)">>
                                     /\ exit_code' = IF raises THEN 1 ELSE 0
  /\ UNCHANGED <<launch, environ, settings, config_path>>

\* a command about to start: the configuration files that exist, the
\* environment, the options and what the user will answer to a prompt
CliInit ==
  /\ launch \in [existing : SUBSET ConfigFiles,
                 environ : {None, Some("env.yaml")},
                 config_file : {None, Some("explicit.yaml")},
                 engine_name : {"md", "sql", "unknown"},
                 rebuild : BOOLEAN, force : BOOLEAN, answer : {"y", "n"}]
  /\ environ = launch.environ
  /\ settings = DefaultSettings
  /\ config_path = None
  /\ cli_pc = "start"
  /\ trace = <<>>
  /\ exit_code = 0

\* the command line at rest, for the specifications of the other parts
CliIdle ==
  /\ launch = [existing |-> {}, environ |-> None, config_file |-> None, engine_name |-> "md",
               rebuild |-> FALSE, force |-> FALSE, answer |-> "n"]
  /\ environ = None
  /\ settings = DefaultSettings
  /\ config_path = None
  /\ cli_pc = "start"
  /\ trace = <<>>
  /\ exit_code = 0

(***************************************************************************)
(* The files _chunk_generator reads.  A path is the sequence of its names, *)
(* a name a stem and an extension; a pattern is a sequence of segments: a  *)
(* name, "*" followed by an extension, or "**".                            *)
(***************************************************************************)
Name(stem, ext) == [kind |-> "name", stem |-> stem, ext |-> ext]
Star(ext) == [kind |-> "star", stem |-> "", ext |-> ext]
GlobStar == [kind |-> "globstar", stem |-> "", ext |-> ""]

Docs == Name("docs", "")

\* the entries a file system is made of; docs/x.json is a directory
Entries ==
  {[path |-> <<Docs, Name("a", ".md")>>, is_file |-> TRUE],
   [path |-> <<Docs, Name("b", ".txt")>>, is_file |-> TRUE],
   [path |-> <<Docs, Name("c", ".json")>>, is_file |-> TRUE],
   [path |-> <<Docs, Name("f", ".py")>>, is_file |-> TRUE],
   [path |-> <<Docs, Name("x", ".json")>>, is_file |-> FALSE],
   [path |-> <<Docs, Name("sub", ""), Name("d", ".md")>>, is_file |-> TRUE],
   [path |-> <<Docs, Name("sub", ""), Name("e", ".json")>>, is_file |-> TRUE],
   [path |-> <<Name("other", ""), Name("g", ".json")>>, is_file |-> TRUE]}

\* the directories of a file system: docs, and every one an entry lies in
Directories(entries) ==
  {<<Docs>>} \cup {e.path : e \in {d \in entries : ~d.is_file}}
    \cup UNION {{SubSeq(e.path, 1, n) : n \in 1..(Len(e.path) - 1)} : e \in entries}

\* os.path.isdir(path) of a path without wildcards
isdir(entries, path) ==
  /\ \A i \in 1..Len(path) : path[i].kind = "name"
  /\ path \in Directories(entries)

\* whether a path lies under a directory
Under(path, dir) == Len(path) > Len(dir) /\ SubSeq(path, 1, Len(dir)) = dir

\* base_dir.rglob(f"*{ext}"): everything under base_dir, at any depth, whose
\* name ends with ext
rglob(entries, base_dir, ext) ==
  {e.path : e \in {d \in entries : Under(d.path, base_dir) /\ d.path[Len(d.path)].ext = ext}}

\* whether a path matches a pattern, segment by segment; "**" stands for any
\* number of directories
RECURSIVE matches(_, _)
matches(path, pattern) ==
  IF pattern = <<>> THEN path = <<>>
  ELSE IF Head(pattern).kind = "globstar"
       THEN matches(path, Tail(pattern)) \/ (path # <<>> /\ matches(Tail(path), pattern))
       ELSE /\ path # <<>>
            /\ IF Head(pattern).kind = "star" THEN Head(path).ext = Head(pattern).ext
               ELSE Head(path) = Head(pattern)
            /\ matches(Tail(path), Tail(pattern))

\* glob.glob(pattern, recursive=True): what exists and matches
glob(entries, pattern) ==
  {e.path : e \in {d \in entries : matches(d.path, pattern)}}
    \cup {d \in Directories(entries) : matches(d, pattern)}

\* filepath.is_file()
is_file(entries, path) == \E e \in entries : e.path = path /\ e.is_file

\* chunker.supported_extensions: SqlChunker has the property, DocumentChunker
\* has none
supported_extensions(chunker) ==
  IF chunker = "sql" THEN [ok |-> TRUE, extensions |-> {".json"}]
  ELSE [ok |-> FALSE, extensions |-> {}]

\* _chunk_generator, as far as the files it opens: lines 42-57
ChunkGeneratorFiles ==
  /\ walk_pc = "ready"
  /\ IF isdir(tree, target_path)
     THEN LET supported == supported_extensions(chunker_type)
              files == UNION {rglob(tree, target_path, ext) : ext \in supported.extensions}
          IN IF ~supported.ok
             THEN walk_pc' = "raised" /\ files_read' = {}
             ELSE /\ walk_pc' = "done"
                  /\ files_read' = {f \in files : is_file(tree, f)}
     ELSE /\ walk_pc' = "done"
          /\ files_read' = {f \in glob(tree, target_path) : is_file(tree, f)}
  /\ UNCHANGED <<tree, target_path, chunker_type>>

\* the targets tried: directories, a file, patterns
Targets ==
  {<<Docs>>, <<Docs, Name("sub", "")>>, <<Docs, Name("a", ".md")>>, <<Docs, Star(".md")>>,
   <<Docs, GlobStar, Star(".json")>>, <<Docs, Star("")>>, <<Name("missing", "")>>}

WalkInit ==
  /\ tree \in SUBSET Entries
  /\ target_path \in Targets
  /\ chunker_type \in {"document", "sql"}
  /\ files_read = {}
  /\ walk_pc = "ready"

\* no pass reading files, for the specifications of the other parts
WalkIdle ==
  /\ tree = {}
  /\ target_path = <<Docs>>
  /\ chunker_type = "document"
  /\ files_read = {}
  /\ walk_pc = "ready"

(***************************************************************************)
(* The specifications.                                                     *)
(***************************************************************************)
\* the ingestion part at rest, for the specifications of the other parts
IngestIdle ==
  /\ IngestInit
  /\ engine = "md"
  /\ fs = [f \in Range(Files) |-> <<>>]

Init == IngestInit /\ EmbedInit /\ SearchIdle /\ StoreInit /\ ChunkIdle /\ MapperIdle /\ ApiIdle /\ CliIdle /\ WalkIdle

Next ==
  \/ (\E rb \in BOOLEAN : StartPass(rb)) /\ UNCHANGED <<embedVars, searchVars, storeVars, chunkVars, mapperVars, apiVars, cliVars, walkVars>>
  \/ Clear /\ UNCHANGED <<embedVars, searchVars, storeVars, chunkVars, mapperVars, apiVars, cliVars, walkVars>>
  \/ GetHashes /\ UNCHANGED <<embedVars, searchVars, storeVars, chunkVars, mapperVars, apiVars, cliVars, walkVars>>
  \/ IngestBatch /\ UNCHANGED <<embedVars, searchVars, storeVars, chunkVars, mapperVars, apiVars, cliVars, walkVars>>
  \/ CreateIndices /\ UNCHANGED <<embedVars, searchVars, storeVars, chunkVars, mapperVars, apiVars, cliVars, walkVars>>
  \/ Compact /\ UNCHANGED <<embedVars, searchVars, storeVars, chunkVars, mapperVars, apiVars, cliVars, walkVars>>
  \/ EditFile /\ UNCHANGED <<embedVars, searchVars, storeVars, chunkVars, mapperVars, apiVars, cliVars, walkVars>>

Spec == Init /\ [][Next]_vars

InitEmbed == IngestIdle /\ EmbedInit /\ SearchIdle /\ StoreInit /\ ChunkIdle /\ MapperIdle /\ ApiIdle /\ CliIdle /\ WalkIdle

NextEmbed ==
  \/ (\E t \in Threads, name \in ModelNames : Construct(t, name)) /\ UNCHANGED <<ingestVars, searchVars, storeVars, chunkVars, mapperVars, apiVars, cliVars, walkVars>>
  \/ (\E t \in Threads : CheckCache(t)) /\ UNCHANGED <<ingestVars, searchVars, storeVars, chunkVars, mapperVars, apiVars, cliVars, walkVars>>
  \/ (\E t \in Threads : Load(t)) /\ UNCHANGED <<ingestVars, searchVars, storeVars, chunkVars, mapperVars, apiVars, cliVars, walkVars>>
  \/ (\E t \in Threads : StoreCache(t)) /\ UNCHANGED <<ingestVars, searchVars, storeVars, chunkVars, mapperVars, apiVars, cliVars, walkVars>>
  \/ (\E t \in Threads : ReadCache(t)) /\ UNCHANGED <<ingestVars, searchVars, storeVars, chunkVars, mapperVars, apiVars, cliVars, walkVars>>
  \/ (\E t \in Threads, e \in embedders : CallExecute(t, e)) /\ UNCHANGED <<ingestVars, searchVars, storeVars, chunkVars, mapperVars, apiVars, cliVars, walkVars>>
  \/ (\E t \in Threads : Acquire(t)) /\ UNCHANGED <<ingestVars, searchVars, storeVars, chunkVars, mapperVars, apiVars, cliVars, walkVars>>
  \/ (\E t \in Threads : Release(t)) /\ UNCHANGED <<ingestVars, searchVars, storeVars, chunkVars, mapperVars, apiVars, cliVars, walkVars>>

SpecEmbed == InitEmbed /\ [][NextEmbed]_vars

\* the threads are scheduled fairly: one waiting for a lock that is free again
\* and again gets it, and the tokenizer and the model come to an end
FairEmbed == \A t \in Threads : SF_embedVars(Acquire(t)) /\ WF_embedVars(Release(t))

\* embedders constructed, no constructor running: calls of embed_batch and
\* embed_query only
InitExecute == IngestIdle /\ ConstructedInit /\ SearchIdle /\ StoreInit /\ ChunkIdle /\ MapperIdle /\ ApiIdle /\ CliIdle /\ WalkIdle

NextExecute ==
  \/ (\E t \in Threads, e \in embedders : CallExecute(t, e)) /\ UNCHANGED <<ingestVars, searchVars, storeVars, chunkVars, mapperVars, apiVars, cliVars, walkVars>>
  \/ (\E t \in Threads : Acquire(t)) /\ UNCHANGED <<ingestVars, searchVars, storeVars, chunkVars, mapperVars, apiVars, cliVars, walkVars>>
  \/ (\E t \in Threads : Release(t)) /\ UNCHANGED <<ingestVars, searchVars, storeVars, chunkVars, mapperVars, apiVars, cliVars, walkVars>>

SpecExecute == InitExecute /\ [][NextExecute]_vars /\ FairEmbed

InitSearch == IngestIdle /\ EmbedInit /\ SearchInit /\ StoreInit /\ ChunkIdle /\ MapperIdle /\ ApiIdle /\ CliIdle /\ WalkIdle

NextSearch == ExecuteQuery /\ UNCHANGED <<ingestVars, embedVars, storeVars, chunkVars, mapperVars, apiVars, cliVars, walkVars>>

SpecSearch == InitSearch /\ [][NextSearch]_vars

InitStore == IngestIdle /\ EmbedInit /\ SearchIdle /\ StoreInit /\ ChunkIdle /\ MapperIdle /\ ApiIdle /\ CliIdle /\ WalkIdle

NextStore ==
  \/ StoreClear /\ UNCHANGED <<ingestVars, embedVars, searchVars, chunkVars, mapperVars, apiVars, cliVars, walkVars>>
  \/ (\E batch \in Batches, write_fails \in BOOLEAN : StoreIngestChunks(batch, write_fails))
       /\ UNCHANGED <<ingestVars, embedVars, searchVars, chunkVars, mapperVars, apiVars, cliVars, walkVars>>
  \/ StoreGetExistingHashes /\ UNCHANGED <<ingestVars, embedVars, searchVars, chunkVars, mapperVars, apiVars, cliVars, walkVars>>
  \/ (\E fts_fails, vector_fails \in BOOLEAN : StoreCreateIndices(fts_fails, vector_fails))
       /\ UNCHANGED <<ingestVars, embedVars, searchVars, chunkVars, mapperVars, apiVars, cliVars, walkVars>>
  \/ (\E fails \in BOOLEAN : StoreCompact(fails)) /\ UNCHANGED <<ingestVars, embedVars, searchVars, chunkVars, mapperVars, apiVars, cliVars, walkVars>>

SpecStore == InitStore /\ [][NextStore]_vars

InitDocChunk == IngestIdle /\ EmbedInit /\ SearchIdle /\ StoreInit /\ DocChunkInit /\ MapperIdle /\ ApiIdle /\ CliIdle /\ WalkIdle

NextDocChunk == DocumentProcess /\ UNCHANGED <<ingestVars, embedVars, searchVars, storeVars, mapperVars, apiVars, cliVars, walkVars>>

SpecDocChunk == InitDocChunk /\ [][NextDocChunk]_vars

InitSqlChunk == IngestIdle /\ EmbedInit /\ SearchIdle /\ StoreInit /\ SqlChunkInit /\ MapperIdle /\ ApiIdle /\ CliIdle /\ WalkIdle

NextSqlChunk == SqlProcess /\ UNCHANGED <<ingestVars, embedVars, searchVars, storeVars, mapperVars, apiVars, cliVars, walkVars>>

SpecSqlChunk == InitSqlChunk /\ [][NextSqlChunk]_vars

InitMapper == IngestIdle /\ EmbedInit /\ SearchIdle /\ StoreInit /\ ChunkIdle /\ MapperInit /\ ApiIdle /\ CliIdle /\ WalkIdle

NextMapper ==
  \/ (\E chunks \in SeqsUpTo(MapperChunks, BatchSize), workflow \in Workflows :
        \E shape \in Shapes(Len(chunks)) : MapperIngestChunks(chunks, Array(shape), workflow))
       /\ UNCHANGED <<ingestVars, embedVars, searchVars, storeVars, chunkVars, apiVars, cliVars, walkVars>>
  \/ (\E k \in 1..Len(mtable), score \in RowScores : MapperFromPolarsRow(k, score))
       /\ UNCHANGED <<ingestVars, embedVars, searchVars, storeVars, chunkVars, apiVars, cliVars, walkVars>>

SpecMapper == InitMapper /\ [][NextMapper]_vars

InitApi == IngestIdle /\ EmbedInit /\ SearchIdle /\ StoreInit /\ ChunkIdle /\ MapperIdle /\ ApiInit /\ CliIdle /\ WalkIdle

NextApi ==
  \/ search_md /\ UNCHANGED <<ingestVars, embedVars, searchVars, storeVars, chunkVars, mapperVars, cliVars, walkVars>>
  \/ search_sql /\ UNCHANGED <<ingestVars, embedVars, searchVars, storeVars, chunkVars, mapperVars, cliVars, walkVars>>

SpecApi == InitApi /\ [][NextApi]_vars

InitCli == IngestIdle /\ EmbedInit /\ SearchIdle /\ StoreInit /\ ChunkIdle /\ MapperIdle /\ ApiIdle /\ CliInit /\ WalkIdle

NextCli ==
  \/ ImportConfig /\ UNCHANGED <<ingestVars, embedVars, searchVars, storeVars, chunkVars, mapperVars, apiVars, walkVars>>
  \/ main /\ UNCHANGED <<ingestVars, embedVars, searchVars, storeVars, chunkVars, mapperVars, apiVars, walkVars>>
  \/ ingest /\ UNCHANGED <<ingestVars, embedVars, searchVars, storeVars, chunkVars, mapperVars, apiVars, walkVars>>

SpecCli == InitCli /\ [][NextCli]_vars

InitWalk == IngestIdle /\ EmbedInit /\ SearchIdle /\ StoreInit /\ ChunkIdle /\ MapperIdle /\ ApiIdle /\ CliIdle /\ WalkInit

NextWalk == ChunkGeneratorFiles /\ UNCHANGED <<ingestVars, embedVars, searchVars, storeVars, chunkVars, mapperVars, apiVars, cliVars>>

SpecWalk == InitWalk /\ [][NextWalk]_vars

(***************************************************************************)
(* Properties of the ingestion pass.                                       *)
(***************************************************************************)
CountOf(s, x) == Cardinality({i \in 1..Len(s) : s[i] = x})

IndicesOf(s, x) == {i \in 1..Len(s) : s[i] = x}

\* the chunks of the running pass's stream consumed so far that the snapshot lacks
NewOfConsumed ==
  SelectIdx(SubSeq(chunk_generator(passFs), 1, pos),
            LAMBDA c : c.content_hash \notin existing_hashes)

\* the running pass follows a completed pass that started from an empty table,
\* reads the same inputs and does not rebuild
SecondOfTwo ==
  /\ pc # "idle"
  /\ prev.valid /\ prev.done /\ prev.fresh
  /\ ~rebuild
  /\ prev.fs = passFs

\* C1: a pass without rebuild over the inputs of the completed pass before it,
\* which started from a cleared (empty) table, appends no chunk: the table stays
\* as that first pass left it.
C1_SecondPassAppendsNothing ==
  SecondOfTwo =>
    /\ appended = <<>>
    /\ embedded = <<>>
    /\ total_chunks = 0
    /\ table = prev.table
    /\ (pc = "done" => skipped_chunks = Len(chunk_generator(passFs)))

C1_Witness ==
  /\ SecondOfTwo
  /\ pc = "done"
  /\ Len(prev.table) >= 3
  /\ skipped_chunks = Len(prev.table)

\* C2: every chunk handed to embed_batch or to ingest_chunks in a pass has a
\* content_hash outside the set get_existing_hashes returned for that pass, and
\* the rows the pass added are exactly the rows of those chunks.
C2_OnlyNewChunksEmbeddedAndAppended ==
  /\ \A i \in 1..Len(embedded) : embedded[i].content_hash \notin existing_hashes
  /\ \A i \in 1..Len(appended) : appended[i].content_hash \notin existing_hashes
  /\ pc \in {"batches", "compact", "done", "failed"} =>
       \* a clear that raised is the last call of its pass
       table = (IF rebuild /\ Len(calls) >= 2 THEN <<>> ELSE passTable)
                 \o to_record_batch(appended)

C2_Witness ==
  /\ pc = "done"
  /\ existing_hashes # {}
  /\ Len(appended) > 0
  /\ skipped_chunks > 0
  /\ \E i \in 1..Len(chunk_generator(passFs)) :
       chunk_generator(passFs)[i].content_hash \in existing_hashes

\* C3: a pass calls get_existing_hashes once, before its first embed_batch and
\* ingest_chunks call; the set it got stays what the table held at that call
\* whatever the pass appends, so every consumed chunk whose hash the set lacks is
\* appended, chunks sharing such a hash included.
C3_SnapshotTakenOnceNotRefreshed ==
  /\ CountOf(calls, "get_existing_hashes") <= 1
  /\ pc \in {"batches", "compact", "done"} =>
       /\ CountOf(calls, "get_existing_hashes") = 1
       /\ \A i \in IndicesOf(calls, "get_existing_hashes") :
            \A j \in IndicesOf(calls, "embed_batch") \cup IndicesOf(calls, "ingest_chunks") :
              i < j
       /\ existing_hashes = get_existing_hashes(IF rebuild THEN <<>> ELSE passTable)
       /\ appended = NewOfConsumed
       /\ total_chunks = Len(NewOfConsumed)

\* two chunks of one batch and two chunks of different batches share a hash the
\* snapshot lacks, and all of them were appended
C3_Witness ==
  /\ pc = "done"
  /\ LET stream == chunk_generator(passFs)
         Twin(i, j) ==
           /\ i < j
           /\ stream[i].content_hash = stream[j].content_hash
           /\ stream[i].content_hash \notin existing_hashes
         Batch(i) == (i - 1) \div BatchSize
     IN /\ \E i, j \in 1..Len(stream) : Twin(i, j) /\ Batch(i) = Batch(j)
        /\ \E i, j \in 1..Len(stream) : Twin(i, j) /\ Batch(i) # Batch(j)
        /\ Len(appended) = Len(stream)
        /\ Len(table) = Len(passTable) + Len(stream)

\* C4: a completed pass made exactly one create_indices call and one compact
\* call, in this order, as its last two calls (so after every ingest_chunks
\* call), also when it appended nothing; compact is never called before
\* create_indices returned.
C4_IndicesThenCompactOncePerPass ==
  /\ pc = "done" =>
       /\ CountOf(calls, "create_indices") = 1
       /\ CountOf(calls, "compact") = 1
       /\ Len(calls) >= 2
       /\ calls[Len(calls) - 1] = "create_indices"
       /\ calls[Len(calls)] = "compact"
  /\ pc = "compact" => calls[Len(calls)] = "create_indices"
  /\ pc \in {"clear", "hashes", "batches"} =>
       /\ CountOf(calls, "create_indices") = 0
       /\ CountOf(calls, "compact") = 0

C4_Witness ==
  /\ pc = "done"
  /\ appended = <<>>
  /\ chunk_generator(passFs) # <<>>
  /\ calls = <<"get_existing_hashes", "create_indices", "compact">>

\* the states a database can hold the engine's table in
TableStates ==
  {[ok |-> TRUE, exists |-> FALSE, rows |-> <<>>],
   [ok |-> TRUE, exists |-> TRUE, rows |-> <<>>],
   [ok |-> TRUE, exists |-> TRUE, rows |-> table]}

\* C5: a pass with rebuild calls clear first and get_existing_hashes after it,
\* gets the empty set, and when it completes has appended every chunk of the
\* stream, the table holding exactly their rows; clear succeeds on a missing, an
\* empty and a filled table, leaves an empty table, and clearing again changes
\* nothing.
C5_RebuildClearsBeforeSnapshot ==
  /\ (rebuild /\ pc \in {"batches", "compact", "done"}) =>
       /\ Len(calls) >= 2
       /\ calls[1] = "clear"
       /\ calls[2] = "get_existing_hashes"
       /\ existing_hashes = {}
  /\ (rebuild /\ pc \in {"compact", "done"}) =>
       /\ appended = chunk_generator(passFs)
       /\ table = to_record_batch(chunk_generator(passFs))
  /\ (rebuild /\ pc = "hashes") => table = <<>>
  /\ \A db \in TableStates :
       /\ clear(db).ok
       /\ clear(db).exists
       /\ clear(db).rows = <<>>
       /\ clear(clear(db)) = clear(db)

C5_Witness ==
  /\ rebuild
  /\ pc = "done"
  /\ Len(passTable) >= 2
  /\ Len(appended) >= 2
  /\ prev.valid /\ prev.fs = passFs

(***************************************************************************)
(* Properties of the embedder.                                             *)
(***************************************************************************)
\* C6: for every model name load is called at most once, and all embedders
\* constructed for one name hold the same cache entry (model, tokenizer, lock).
C6_LoadedOncePerModelName ==
  /\ \A n \in ModelNames : loads[n] <= 1
  /\ \A e1, e2 \in embedders : e1.name = e2.name => e1.tuple = e2.tuple

\* C7: no two threads run inference for one model name at the same time.
C7_OneInferencePerModelName ==
  \A t1, t2 \in Threads :
    (t1 # t2 /\ tpc[t1] = "inference" /\ tpc[t2] = "inference")
      => tself[t1].name # tself[t2].name

(***************************************************************************)
(* Properties of the search.                                               *)
(***************************************************************************)
\* the query was embedded and handed to store.search
Executed == spc # "ready" /\ embed_call.vector # None

\* C8: store.search runs the hybrid query first; when that fails it runs one
\* more query, a vector search with the cosine metric and with the predicates
\* (as prefilters), nprobes and limit of the hybrid query, which are those of
\* the request; when the fallback succeeds the call returns its rows; no row
\* returned fails a predicate of the request.
C8_FallbackKeepsPrefilters ==
  Executed =>
    /\ Len(store_queries) \in {1, 2}
    /\ store_queries[1].query_type = "hybrid"
    /\ store_queries[1].where = prefilters(source_filter, extra_filters)
    /\ store_queries[1].limit = limit
    /\ (spc = "raised" => Len(store_queries) = 2)
    /\ Len(store_queries) = 2 =>
         LET h == store_queries[1]
             f == store_queries[2]
         IN /\ f.query_type = "vector"
            /\ f.metric = Some("cosine")
            /\ f.where = h.where
            /\ f.prefilter = h.prefilter
            /\ f.prefilter
            /\ f.nprobes = h.nprobes
            /\ f.limit = h.limit
            /\ spc = "returned" =>
                 /\ results = mapped(run_query(f, {}))
                 /\ \A i \in 1..Len(results) : results[i].distance # None
    /\ spc = "returned" =>
         /\ Len(results) <= limit
         /\ \A i \in 1..Len(results) :
              /\ source_filter # None => results[i].chunk.source = source_filter[1]
              /\ extra_filters # None =>
                   results[i].chunk.execution_time_ms >= extra_filters[1]

C8_Witness ==
  /\ spc = "returned"
  /\ Len(store_queries) = 2
  /\ source_filter # None
  /\ extra_filters # None
  /\ Len(results) = 1
  /\ limit > 1
  /\ \E i \in 1..Len(StoredRows) : StoredRows[i].execution_time_ms < extra_filters[1]

\* a string with every single quote doubled
RECURSIVE Doubled(_)
Doubled(s) ==
  IF s = <<>> THEN <<>>
  ELSE (IF Head(s) = "'" THEN <<"'", "'">> ELSE <<Head(s)>>) \o Doubled(Tail(s))

\* file' OR '1'='1
ExampleFilter ==
  <<"f", "i", "l", "e", "'", " ", "O", "R", " ", "'", "1", "'", "=", "'", "1">>

\* source = 'file'' OR ''1''=''1'
ExamplePredicate ==
  <<"source = ", "'", "f", "i", "l", "e", "'", "'", " ", "O", "R", " ", "'", "'", "1",
    "'", "'", "=", "'", "'", "1", "'">>

\* C9: for a source_filter s every query sent to the table carries, as a
\* prefilter, the predicate source = '<s with every single quote doubled>', the
\* table reads that predicate back as equality with the literal s, and every
\* row returned has source s; all rows with source s (and passing min_time) are
\* candidates.
C9_SourceFilterIsLiteralEquality ==
  /\ (Executed /\ source_filter # None) =>
       LET s == source_filter[1]
       IN /\ \A i \in 1..Len(store_queries) :
               /\ store_queries[i].where[1] = <<"source = ", "'">> \o Doubled(s) \o <<"'">>
               /\ store_queries[i].prefilter
               /\ scan_literal(store_queries[i].where[1], 3, <<>>)
                    = [ok |-> TRUE, value |-> s, rest |-> <<>>]
               /\ \A k \in 1..Len(StoredRows) :
                    row_matches(store_queries[i].where[1], StoredRows[k])
                      <=> StoredRows[k].source = s
          /\ \A i \in 1..Len(results) : results[i].chunk.source = s
  /\ source_predicate(ExampleFilter) = ExamplePredicate

C9_Witness ==
  /\ spc = "returned"
  /\ source_filter # None
  /\ "'" \in Range(source_filter[1])
  /\ "|" \in Range(source_filter[1])
  /\ Len(results) = 1
  /\ results[1].chunk.source = source_filter[1]

\* the scores a row can come with: a null _distance and a distance
Scores == {None} \cup {Some(StoredRows[k].dist) : k \in 1..Len(StoredRows)}

\* C10: every search result has is_fts_match = (distance is None) and
\* score = distance, whichever mapper built it and whether the row's _distance
\* was null or not.
C10_FtsMatchIffNoDistance ==
  /\ \A i \in 1..Len(results) :
       /\ results[i].is_fts_match = (results[i].distance = None)
       /\ results[i].score = results[i].distance
  /\ \A k \in 1..Len(StoredRows), d \in Scores :
       LET md == DocumentMapper_from_polars_row(StoredRows[k], d)
           sql == SqlMapper_from_polars_row(StoredRows[k], d)
       IN /\ md.is_fts_match = (md.distance = None)
          /\ md.score = md.distance /\ md.distance = d
          /\ sql.is_fts_match = (sql.distance = None)
          /\ sql.score = sql.distance /\ sql.distance = d

C10_Witness ==
  /\ spc = "returned"
  /\ Len(results) = 2
  /\ results[1].distance = None
  /\ results[1].is_fts_match
  /\ results[2].distance # None
  /\ ~results[2].is_fts_match

(***************************************************************************)
(* Properties of create_indices within the ingest pass.                    *)
(***************************************************************************)
\* C15: a failure of the full-text index build never leaves create_indices: it
\* is logged, the vector step is decided as without the failure, the call
\* returns and the pass goes on to compact; create_indices, on the table of the
\* pass as on one of 255 or 256 rows, raises exactly when the vector index
\* build, attempted from 256 rows on, fails.
C15_FtsFailureStaysInsideCreateIndices ==
  /\ index_report.called =>
       /\ index_report.fts_attempted
       /\ index_report.logged = ~index_report.fts_built
       /\ index_report.vector_attempted = (Len(table) >= VectorIndexMinRows)
       /\ index_report.raised => (pc = "failed" /\ calls[Len(calls)] = "create_indices")
       /\ ~index_report.raised =>
            \/ pc = "compact" /\ calls[Len(calls)] = "create_indices"
            \/ pc \in {"done", "failed"} /\ calls[Len(calls)] = "compact"
  /\ pc = "compact" =>
       \A n \in {Len(table), 255, 256}, fts_fails, vector_fails \in BOOLEAN :
         LET report == create_indices(n, fts_fails, vector_fails)
         IN /\ report.fts_attempted
            /\ report.logged = fts_fails
            /\ report.vector_attempted = (n >= 256)
            /\ report.raised = (vector_fails /\ n >= 256)

C15_Witness ==
  /\ pc = "done"
  /\ index_report.logged
  /\ ~index_report.fts_built
  /\ Len(appended) > 0
  /\ calls[Len(calls)] = "compact"

(***************************************************************************)
(* Properties of the store.                                                *)
(***************************************************************************)
\* C11: right after ingest_chunks returned, get_existing_hashes holds the
\* content_hash of every chunk of the batch; whatever ingest_chunks,
\* create_indices and compact calls followed the last clear, it holds every
\* hash appended since; on an empty table it returns the empty set and reads
\* nothing.
C11_ExistingHashesGrowOnly ==
  /\ (last.op = "ingest_chunks" /\ ~last.raised) =>
       HashesOf(last.batch) \subseteq project_content_hash(rows_by_hash).hashes
  /\ seen \subseteq project_content_hash(rows_by_hash).hashes
  /\ last.op = "get_existing_hashes" =>
       /\ last.hashes = HashesOf(rows_by_hash)
       /\ seen \subseteq last.hashes
       /\ last.scanned = (RowCount(rows_by_hash) > 0)
       /\ RowCount(rows_by_hash) = 0 => last.hashes = {}

C11_Witness ==
  /\ last.op = "get_existing_hashes"
  /\ last.hashes = Hashes
  /\ last.scanned
  /\ indices.fts

\* C16: a create_indices call attempts the full-text index on the text column
\* whatever the row count; it builds the vector index exactly when the table
\* has at least 256 rows, then with num_partitions the smaller of 256 and
\* floor(sqrt(row count)), a number from 16 to 256.
C16_VectorIndexFrom256Rows ==
  last.op = "create_indices" =>
    LET n == RowCount(rows_by_hash)
        report == last.report
    IN /\ report.fts_attempted
       /\ report.fts_column = "text"
       /\ report.vector_attempted = (n >= 256)
       /\ ~report.vector_attempted => report.num_partitions = None
       /\ report.vector_attempted =>
            /\ report.num_partitions # None
            /\ LET parts == report.num_partitions[1]
               IN /\ parts >= 16 /\ parts <= 256
                  /\ IF n >= 256 * 256 THEN parts = 256
                     ELSE parts * parts <= n /\ (parts + 1) * (parts + 1) > n

C16_Witness ==
  /\ last.op = "create_indices"
  /\ RowCount(rows_by_hash) > 256 * 256
  /\ last.report.num_partitions = Some(256)
  /\ indices.vector = Some(256)
  /\ last.report.logged

(***************************************************************************)
(* Properties of embed_query within execute_query.                         *)
(***************************************************************************)
\* C12: execute_query on an empty or whitespace-only query ends with the
\* validation error of embed_query, raised before the lock was taken and before
\* any inference, and store.search is not called.
C12_BlankQueryRejectedBeforeInference ==
  (spc # "ready" /\ squery \in {"", " "}) =>
    /\ spc = "raised"
    /\ embed_call.raised = "ValueError: Query text cannot be empty."
    /\ ~embed_call.lock_taken
    /\ embed_call.inferences = 0
    /\ embed_call.vector = None
    /\ store_queries = <<>>
    /\ results = <<>>

C12_Witness ==
  /\ spc = "raised"
  /\ squery = " "
  /\ source_filter # None
  /\ embed_call.raised # ""

\* errors that report the shape of the model's output: the check of line 103
\* and, on an output without a first row, the indexing of line 100
ShapeErrors == {"ValueError: Expected (D,), got shape", "IndexError"}

Wanted(row) ==
  /\ source_filter # None => row.source = source_filter[1]
  /\ extra_filters # None => row.execution_time_ms >= extra_filters[1]

\* C14: every query sent to the table carries one predicate for each filter
\* given (none when none is given), applied before scoring; its candidates are
\* exactly the rows that satisfy all of them: with both filters the rows with
\* source = s and execution_time_ms >= min_time, with one filter the rows
\* satisfying that one, with none all rows; every row returned is a candidate.
C14_PrefiltersAreAndComposed ==
  Executed =>
    /\ \A i \in 1..Len(store_queries) :
         LET q == store_queries[i]
         IN /\ Len(q.where) = (IF source_filter # None THEN 1 ELSE 0)
                                + (IF extra_filters # None THEN 1 ELSE 0)
            /\ q.prefilter
            /\ candidates(q) = SelectIdx(StoredRows, Wanted)
            /\ (source_filter = None /\ extra_filters = None) => candidates(q) = StoredRows
    /\ spc = "returned" =>
         \A i \in 1..Len(results) :
           \E k \in 1..Len(StoredRows) :
             /\ Wanted(StoredRows[k])
             /\ StoredRows[k].id = results[i].chunk.id

\* both filters given; one row has the source but is too fast, another is slow
\* enough but has another source, and nothing is returned
C14_Witness ==
  /\ spc = "returned"
  /\ source_filter # None
  /\ extra_filters # None
  /\ results = <<>>
  /\ \E k \in 1..Len(StoredRows) :
       /\ StoredRows[k].source = source_filter[1]
       /\ StoredRows[k].execution_time_ms < extra_filters[1]
  /\ \E k \in 1..Len(StoredRows) :
       /\ StoredRows[k].source # source_filter[1]
       /\ StoredRows[k].execution_time_ms >= extra_filters[1]

(***************************************************************************)
(* Properties of the document chunker.                                     *)
(***************************************************************************)
\* the texts the chunker collected for the document, before the length filter
CandidateTexts ==
  IF lower(cdoc.filepath[2]) = ".md"
  THEN LET tokens == parse(cdoc.content.blocks, cdoc.content.final_newline)
       IN flush(markdown_loop(tokens, Len(tokens), max_chars))
  ELSE flush(text_loop(cdoc.content, Len(cdoc.content), max_chars))

DocChunked == cpc = "done" /\ cdoc.filepath[2] \in {".md", ".MD", ".txt"}

\* C17: the i-th chunk yielded for a document, counting from 0, has the id
\* "{filepath}_chunk_{i}": the ordinals are those of the texts that passed the
\* length filter, in the order yielded and without gaps, so the ids of the
\* document are pairwise distinct and increasing.
C17_ChunkIdsNumberedWithoutGaps ==
  DocChunked =>
    /\ \A i \in 1..Len(cchunks) :
         /\ cchunks[i].id = <<cdoc.filepath, "_chunk_", i - 1>>
         /\ cchunks[i].source = cdoc.filepath
         /\ Len(strip(cchunks[i].text)) >= 5
    /\ \A i, j \in 1..Len(cchunks) :
         /\ i # j => cchunks[i].id # cchunks[j].id
         /\ i < j => cchunks[i].id[3] < cchunks[j].id[3]
    /\ Len(cchunks) = Cardinality({k \in 1..Len(CandidateTexts) :
                                     Len(strip(CandidateTexts[k].text)) >= 5})

\* a short text was dropped before two texts that were kept
C17_Witness ==
  /\ DocChunked
  /\ Len(cchunks) >= 2
  /\ Len(CandidateTexts) > Len(cchunks)
  /\ Len(strip(CandidateTexts[1].text)) < 5

Max(S) == CHOOSE x \in S : \A y \in S : y <= x

\* the sizes of the blocks of the document
BlockSizes ==
  IF lower(cdoc.filepath[2]) = ".md"
  THEN {Len(cdoc.content.blocks[i].text) : i \in 1..Len(cdoc.content.blocks)}
  ELSE {Len(cdoc.content[i]) : i \in 1..Len(cdoc.content)}

\* a document without a character that is not white space
BlankDocument ==
  IF lower(cdoc.filepath[2]) = ".md" THEN cdoc.content.blocks = <<>>
  ELSE \A i \in 1..Len(cdoc.content) : strip(cdoc.content[i]) = <<>>

\* C18: every chunk has at least 5 characters and is a fence or has at most
\* max_chars + the size of one block characters, here of the largest block of
\* the document; a blank document yields no chunk.
C18_ChunkWithinMaxCharsPlusOneBlock ==
  DocChunked =>
    /\ \A i \in 1..Len(cchunks) :
         /\ Len(cchunks[i].text) >= 5
         /\ \/ cchunks[i].origin.fence
            \/ Len(cchunks[i].text) <= max_chars + Max(BlockSizes)
    /\ BlankDocument => cchunks = <<>>

(***************************************************************************)
(* Properties of the SQL chunker.                                          *)
(***************************************************************************)
SqlChunked == cpc # "ready" /\ cdoc.filepath[2] = ".json"

\* a field holding a string where process converts to a number
NotNumeric(record, key) ==
  record.fields[key].t = "str" /\ ~numeral(record.fields[key].s, TRUE).ok

\* a content that is not an array of query records: a text that is not JSON, a
\* value that is not an array, or an array with an element that is not an
\* object or with a duration or calls value that is not numeric
Malformed(content) ==
  \/ content.kind # "array"
  \/ \E k \in 1..Len(content.records) :
       \/ ~content.records[k].object
       \/ NotNumeric(content.records[k], "duration")
       \/ NotNumeric(content.records[k], "calls")

\* C19: process raises no exception whatever the content of the document; on
\* a malformed content it logs and yields no chunk.
C19_ChunkerNeverRaises ==
  SqlChunked =>
    /\ cpc = "done"
    /\ Malformed(cdoc.content) => (cchunks = <<>> /\ clog # <<>>)

\* C20: every chunk yielded has a text that is not blank, execution_time_ms >= 0
\* and calls >= 1; a record whose normalized text is blank is skipped and the
\* records after it yield their chunks.
C20_SqlChunkFieldsInRange ==
  SqlChunked =>
    /\ \A i \in 1..Len(cchunks) :
         /\ strip(cchunks[i].text) # <<>>
         /\ cchunks[i].execution_time_ms >= 0
         /\ cchunks[i].calls >= 1
    /\ (cpc = "done" /\ cdoc.content.kind = "array") =>
         Len(cchunks) = Cardinality({k \in 1..Len(cdoc.content.records) :
                                       process_record(cdoc.content.records[k]).outcome = "yield"})

(***************************************************************************)
(* Properties of the mappers.                                              *)
(***************************************************************************)
\* C21: the result decoded from a row of the table, with any score d, has the
\* chunk the row was made from, field by field, and distance d, whatever the
\* workflow the row was written with; for the document mapper and for the
\* SQL mapper.
C21_RowDecodesToItsChunk ==
  mresult.decoded =>
    /\ mresult.result.chunk = mwritten[mresult.k]
    /\ mresult.result.distance = mresult.score
    /\ \A w \in Workflows :
         LET batch == to_record_batch_of(mapper_type, <<mwritten[mresult.k]>>,
                                         Array(<<1, Dimension>>), w)
         IN /\ batch.raised = "" /\ Len(batch.rows) = 1
            /\ batch.rows[1].workflow = w
            /\ (IF mapper_type = "document"
                THEN DocumentMapper_from_polars_row(batch.rows[1], mresult.score)
                ELSE SqlMapper_from_polars_row(batch.rows[1], mresult.score)).chunk
                 = mwritten[mresult.k]

\* a SQL chunk whose raw query and source differ, decoded as a full-text match
C21_Witness ==
  /\ mresult.decoded
  /\ mapper_type = "sql"
  /\ mresult.score = None
  /\ mresult.result.chunk.raw_query # mresult.result.chunk.source
  /\ mresult.result.chunk = mwritten[mresult.k]

\* C22 as stated: every row of the table has a vector of exactly D floats, and
\* an ingest_chunks call given a matrix of any shape but (len(chunks), D)
\* fails and writes no row.
C22_AnyOtherShapeFailsTheAppend ==
  /\ \A k \in 1..Len(mtable) : Len(mtable[k].vector) = Dimension
  /\ (mlast.called /\ mlast.shape # <<mlast.chunks, Dimension>>) =>
       (mlast.raised # "" /\ mlast.rows = 0)

\* C22, amended: every row of the table has a vector of exactly D floats and
\* was made by the mapper from one chunk; an ingest_chunks call given a matrix
\* whose number of elements is not len(chunks) * D fails and writes no row,
\* any other call writes one row per chunk.
C22_RowsHaveDimensionFloats ==
  /\ \A k \in 1..Len(mtable) : Len(mtable[k].vector) = Dimension
  /\ Len(mtable) = Len(mwritten)
  /\ mlast.called =>
       /\ mlast.raised # "" <=> product(mlast.shape) # mlast.chunks * Dimension
       /\ mlast.raised # "" => mlast.rows = 0
       /\ mlast.raised = "" => mlast.rows = mlast.chunks

\* a flat array of len(chunks) * D elements appended as rows of D floats, after
\* an earlier append
C22_Witness ==
  /\ mlast.called
  /\ mlast.raised = ""
  /\ mlast.shape = <<mlast.chunks * Dimension>>
  /\ Len(mtable) > mlast.rows
  /\ \A k \in 1..Len(mtable) : Len(mtable[k].vector) = Dimension

(***************************************************************************)
(* Properties of the HTTP API.                                             *)
(***************************************************************************)
\* what the claim counts as a validation failure: no query, the empty query,
\* a limit outside 1..100
Invalid(body) ==
  \/ body.query = None
  \/ body.query = Some("")
  \/ body.limit # None /\ (body.limit[1] < 1 \/ body.limit[1] > 100)

\* C23: a request that fails validation (query missing or empty, limit
\* outside 1..100) is answered 422 without an execute_query call; a valid one
\* for an engine without service 503 without a call; a valid one whose
\* execute_query call raised 500; any other 200 with the query and the
\* results.
C23_StatusCodes ==
  request.path # "" =>
    /\ Invalid(request.body) => (response.status = 422 /\ executed = <<>>)
    /\ (~Invalid(request.body) /\ request.path \notin services) =>
         (response.status = 503 /\ executed = <<>>)
    /\ (~Invalid(request.body) /\ request.path \in services) =>
         /\ Len(executed) = 1
         /\ response.status \in {200, 500}
         /\ response.status = 200 => response.query = request.body.query
    /\ response.status \in {200, 422, 500, 503}

(***************************************************************************)
(* Properties of the command line.                                         *)
(***************************************************************************)
Did(event) == \E i \in 1..Len(trace) : trace[i] = event

KnownEngine == launch.engine_name \in settings.engines

\* C24: an unknown engine exits with code 1 before any prompt and before a
\* model or a store is opened; --rebuild without --force prompts before any
\* dependency is built, and a declined prompt aborts with nothing built and
\* ingest_directory not called; with --rebuild --force there is no prompt and,
\* the dependencies built, ingest_directory is called with rebuild=True.
C24_RebuildPromptsUnlessForced ==
  cli_pc = "exited" =>
    /\ ~KnownEngine =>
         /\ exit_code = 1
         /\ ~Did("confirm") /\ ~Did("MLXEmbedder") /\ ~Did("LanceDBStore")
    /\ (KnownEngine /\ launch.rebuild /\ ~launch.force) =>
         /\ trace[1] = "confirm"
         /\ launch.answer = "n" =>
              /\ trace = <<"confirm", "Aborted">>
              /\ exit_code # 0
    /\ (KnownEngine /\ ~(launch.rebuild /\ ~launch.force)) => ~Did("confirm")
    /\ (KnownEngine /\ launch.rebuild /\ launch.force /\ Did("deps")) =>
         Did("ingest_directory(rebuild=True)")

\* the path the claimed order gives: the option, else the variable, else
\* config.yaml
ClaimedConfigPath ==
  IF launch.config_file # None THEN launch.config_file[1]
  ELSE IF launch.environ # None THEN launch.environ[1] ELSE "config.yaml"

\* C26: the settings a command runs with are loaded from the --config-file
\* path when the option is given, else from the path in DBS_CONFIG_FILE when
\* the variable is set, else from config.yaml.
C26_ConfigPathOrder ==
  /\ cli_pc \in {"configured", "exited"} =>
       /\ config_path = Some(ClaimedConfigPath)
       /\ settings = load_settings(Some(ClaimedConfigPath), None, launch.existing).settings
  /\ \A arg \in {None, Some("explicit.yaml")}, env \in {None, Some("env.yaml")} :
       load_settings(arg, env, ConfigFiles).path
         = IF arg # None THEN arg[1] ELSE IF env # None THEN env[1] ELSE "config.yaml"

(***************************************************************************)
(* Properties of the files read.                                           *)
(***************************************************************************)
\* the extensions the claim gives each chunker
ClaimedExtensions == IF chunker_type = "sql" THEN {".json"} ELSE {".md", ".txt"}

\* C25: for a target that is a directory the pass does not fail and reads
\* exactly the regular files under it, at any depth, whose extension is one
\* of the chunker's ([".md", ".txt"] or [".json"]); for any other target it
\* reads exactly the regular files the pattern matches.
C25_FilesReadByExtension ==
  walk_pc # "ready" =>
    IF isdir(tree, target_path)
    THEN /\ walk_pc = "done"
         /\ files_read = {e.path : e \in {d \in tree :
                             /\ d.is_file
                             /\ Under(d.path, target_path)
                             /\ d.path[Len(d.path)].ext \in ClaimedExtensions}}
    ELSE /\ walk_pc = "done"
         /\ files_read = {e.path : e \in {d \in tree : d.is_file /\ matches(d.path, target_path)}}

(***************************************************************************)
(* Properties of a pass that fails in a batch.                             *)
(***************************************************************************)
\* the rows the table held when the batch loop of the pass began
RowsBeforeBatches == IF rebuild THEN <<>> ELSE passTable

\* C27: once embed_batch or ingest_chunks has raised in a batch (its new
\* chunks were handed to the embedder and not appended), the pass has ended
\* with the error, the table holds what it held before the loop followed by
\* the rows of the batches appended before, the chunks of the failed batch
\* are not among them, and neither create_indices nor compact was called.
C27_FailedBatchLeavesAppendPrefix ==
  embedded # appended =>
    /\ pc = "failed"
    /\ Len(appended) < Len(embedded)
    /\ appended = SubSeq(embedded, 1, Len(appended))
    /\ table = RowsBeforeBatches \o to_record_batch(appended)
    /\ \A i \in 1..Len(calls) : calls[i] \notin {"create_indices", "compact"}

C27_Witness ==
  /\ pc = "failed"
  /\ embedded # appended
  /\ appended # <<>>
  /\ calls[Len(calls)] = "ingest_chunks"

(***************************************************************************)
(* Properties of the ids in the table.                                     *)
(***************************************************************************)
\* C28: no two rows of the table have the same id, whatever passes were run
\* and whatever the files held.
C28_IdsGloballyUnique ==
  \A i, j \in 1..Len(table) : table[i].id = table[j].id => i = j

(***************************************************************************)
(* Properties of the fences of a markdown document.                        *)
(***************************************************************************)
MarkdownChunked == DocChunked /\ lower(cdoc.filepath[2]) = ".md"

\* the lines of the i-th block, as the token of the block maps them
BlockLines(i) ==
  IF i = Len(cdoc.content.blocks) /\ ~cdoc.content.final_newline
  THEN rstrip(cdoc.content.blocks[i].text)
  ELSE cdoc.content.blocks[i].text

\* how many blocks the first k collected texts are made of
RECURSIVE BlocksBefore(_)
BlocksBefore(k) == IF k = 0 THEN 0 ELSE BlocksBefore(k - 1) + Len(CandidateTexts[k].sizes)

\* the collected texts cut the blocks of the document, in their order, into
\* runs; a fence is a run of its own whose text is the fence, whatever its
\* size, and a run of prose holds no fence, so that prose from before a fence
\* and prose from after it are in different texts
FencesCollectedAlone ==
  /\ BlocksBefore(Len(CandidateTexts)) = Len(cdoc.content.blocks)
  /\ \A k \in 1..Len(CandidateTexts) :
       LET lo == BlocksBefore(k - 1) + 1
           hi == BlocksBefore(k)
           collected == CandidateTexts[k]
       IN /\ lo <= hi
          /\ \A b \in lo..hi : collected.sizes[b - lo + 1] = Len(BlockLines(b))
          /\ IF collected.fence
             THEN /\ lo = hi
                  /\ cdoc.content.blocks[lo].type = "fence"
                  /\ collected.text = strip(BlockLines(lo))
             ELSE \A b \in lo..hi : cdoc.content.blocks[b].type # "fence"

\* where the chunks came from, in the order yielded
Origins == [i \in 1..Len(cchunks) |-> cchunks[i].origin]

Emitted(text) == \E i \in 1..Len(cchunks) : cchunks[i].origin = text

\* C29 as claimed: every fence is a chunk of its own whatever its size, the
\* prose collected right before a fence is a chunk, prose is never merged
\* across a fence, and the chunks come in document order.
C29_EveryFenceIsAChunk ==
  MarkdownChunked =>
    /\ FencesCollectedAlone
    /\ Origins = SelectIdx(CandidateTexts, Emitted)
    /\ \A k \in 1..Len(CandidateTexts) :
         \/ CandidateTexts[k].fence
         \/ (k < Len(CandidateTexts) /\ CandidateTexts[k + 1].fence)
         => Emitted(CandidateTexts[k])

\* C29, amended: every fence is collected as a text of its own whatever its
\* size, the prose before it is collected as an earlier text and prose is
\* never merged across a fence; the chunks are the collected texts of at
\* least 5 characters after trimming, in document order.
C29_FencesOfFiveCharactersAreChunks ==
  MarkdownChunked =>
    /\ FencesCollectedAlone
    /\ Origins = SelectIdx(CandidateTexts, LAMBDA t : Len(strip(t.text)) >= MinChunkChars)

\* prose, a fence larger than max_chars, prose: three chunks
C29_Witness ==
  /\ MarkdownChunked
  /\ Len(cchunks) = 3
  /\ ~cchunks[1].origin.fence
  /\ cchunks[2].origin.fence
  /\ Len(cchunks[2].text) > max_chars
  /\ ~cchunks[3].origin.fence

(***************************************************************************)
(* Properties of the lock around _execute_mlx.                             *)
(***************************************************************************)
\* the lock of the embedder a thread runs _execute_mlx on
LockOf(t) == <<tself[t].name, tself[t].tuple>>

\* a lock is held exactly while a thread is inside the with block on it
LocksHeldOnlyInside == locked = {LockOf(t) : t \in {u \in Threads : tpc[u] = "inference"}}

\* C30: the lock is released whenever _execute_mlx exits, by return or by
\* exception, and under fair scheduling every call that reaches _execute_mlx
\* eventually acquires the lock and then returns or raises.
C30_EmbedCallsAcquireAndFinish ==
  /\ []LocksHeldOnlyInside
  /\ \A t \in Threads : (tpc[t] = "acquire") ~> (tpc[t] = "inference")
  /\ \A t \in Threads : (tpc[t] = "inference") ~> (tpc[t] = "idle")

\* a thread waits for the lock another thread holds
C30_Witness ==
  \E t, u \in Threads :
    /\ t # u
    /\ tpc[t] = "acquire"
    /\ tpc[u] = "inference"
    /\ LockOf(t) = LockOf(u)

====
